---- MODULE Spec2Model ----
(***************************************************************************)
(* rail-connect: the seat allocator (internal/service/seatManager.go) and  *)
(* the booking orchestrator (internal/service/ticketManager.go).           *)
(*                                                                         *)
(* Every public method runs under its owner's mutex from its first to its  *)
(* last statement, so one call is one atomic action here.                  *)
(*                                                                         *)
(* Spec      : the orchestrator's five RPCs drive the allocator.           *)
(* SpecAlloc : AssignSeat / ReleaseSeat / UpdateSeat are called directly   *)
(*             with arbitrary arguments.                                   *)
(* SpecGrow  : only AssignSeat and PurchaseTicket are called, on layouts   *)
(*             with larger sections.                                       *)
(* SpecConc, SpecConcFair : request handlers run the RPCs side by side,    *)
(*             one lock, check, allocator call or unlock per step.         *)
(***************************************************************************)
EXTENDS Integers, Sequences, FiniteSets, TLC

VARIABLES
    Sections,        \* SeatManager.Sections : name -> Section
    SectionOrder,    \* SeatManager.SectionOrder
    nextSectionIdx,  \* SeatManager.nextSectionIdx (0-based)
    Receipts,        \* TicketManager.Receipts : email -> Receipt
    ret,             \* the last call: its name, its arguments and what it returned
    hist,            \* the run of consecutive successful AssignSeat calls ending now
    freed,           \* the seat AssignSeat returned and the next ReleaseSeat freed, if any
    moved,           \* the last successful UpdateSeat and whether the next call moved back
    pc,              \* where each request handler is in the RPC it runs
    call,            \* each handler's RPC: the request, its local variables, its response
    tmMu,            \* TicketManager.mu: the handler holding it, or NoHolder
    smMu,            \* SeatManager.mu: the handler holding it, or NoHolder
    serial           \* the orchestrator had the RPCs run one at a time, in the order
                     \* in which the handlers acquired TicketManager.mu

handlerVars == <<pc, call, tmMu, smMu, serial>>

vars == <<Sections, SectionOrder, nextSectionIdx, Receipts, ret, hist, freed, moved,
          pc, call, tmMu, smMu, serial>>

-----------------------------------------------------------------------------
(* Bounds *)

\* capacity of the large sections of the layouts below (20 in the tests)
MaxSeats == 2

\* how many entries of the run of consecutive assignments are remembered
HistLen == 4

\* how many request handlers (goroutines of the gRPC server) run at a time
NumHandlers == 2

\* capacity of the sections of the layout the handlers run on
ConcSeats == 1

-----------------------------------------------------------------------------
(* Configuration: config.Config.Sections and config.Config.Stations *)

SectionConfig(name, maxSeats) == [Name |-> name, MaxSeats |-> maxSeats]

\* the section layouts a process is started with: none, the two sections of
\* the tests, and three sections of unequal capacity
SectionLayouts ==
    { << >>,
      << SectionConfig("A", MaxSeats), SectionConfig("B", MaxSeats) >>,
      << SectionConfig("A", 1), SectionConfig("B", MaxSeats), SectionConfig("C", 1) >> }

\* the route price table; "London-Paris" is a configured price of zero
StationConnection == [k \in {"London-France", "London-Paris"} |->
                        IF k = "London-France" THEN 20 ELSE 0]

\* mutant: every route has a price, listed or not
PriceOf_Flat(connectionStations) == 20

\* Go's map read: the zero value for a key that is absent
PriceOf(connectionStations) ==
    IF connectionStations \in DOMAIN StationConnection
    THEN StationConnection[connectionStations]
    ELSE 0

-----------------------------------------------------------------------------
(* NewSeatManager *)

\* mutant: FirstVacant is left at the zero value
NewSection_HintZero(sectionConfig) ==
    [ Name        |-> sectionConfig.Name,
      MaxSeats    |-> sectionConfig.MaxSeats,
      Seats       |-> [j \in 1..sectionConfig.MaxSeats |->
                          [Number |-> j, Available |-> TRUE]],
      VacantSeats |-> sectionConfig.MaxSeats,
      FirstVacant |-> 0 ]

NewSection(sectionConfig) ==
    [ Name        |-> sectionConfig.Name,
      MaxSeats    |-> sectionConfig.MaxSeats,
      Seats       |-> [j \in 1..sectionConfig.MaxSeats |->
                          [Number |-> j, Available |-> TRUE]],
      VacantSeats |-> sectionConfig.MaxSeats,
      FirstVacant |-> 1 ]

\* the map entry of a name is the one written last by the range loop
LastIndexOf(sections, name) ==
    CHOOSE i \in 1..Len(sections) :
        /\ sections[i].Name = name
        /\ \A j \in 1..Len(sections) : sections[j].Name = name => j <= i

NewSeatManager(sections) ==
    [ Sections       |-> [n \in {sections[i].Name : i \in 1..Len(sections)} |->
                             NewSection(sections[LastIndexOf(sections, n)])],
      SectionOrder   |-> [i \in 1..Len(sections) |-> sections[i].Name],
      nextSectionIdx |-> 0 ]

\* the allocator as one value
SM == [ Sections       |-> Sections,
        SectionOrder   |-> SectionOrder,
        nextSectionIdx |-> nextSectionIdx ]

-----------------------------------------------------------------------------
(* SeatManager.AssignSeat *)

\* a nil error; any other value is the message of the error returned
NoError == ""

\* the scan "for seatNum <= section.MaxSeats": the first seat number at or
\* after seatNum that exists and is available, or the number the loop ends
\* with (one above MaxSeats, or seatNum itself when the loop never runs)
RECURSIVE FindAvailable(_, _)
FindAvailable(section, seatNum) ==
    IF seatNum > section.MaxSeats THEN seatNum
    ELSE IF seatNum \in DOMAIN section.Seats /\ section.Seats[seatNum].Available
         THEN seatNum
         ELSE FindAvailable(section, seatNum + 1)

\* the loop that moves section.FirstVacant forward to an available seat
RECURSIVE NextFirstVacant(_, _)
NextFirstVacant(section, firstVacant) ==
    IF firstVacant > section.MaxSeats THEN firstVacant
    ELSE IF firstVacant \in DOMAIN section.Seats /\ section.Seats[firstVacant].Available
         THEN firstVacant
         ELSE NextFirstVacant(section, firstVacant + 1)

\* mutant: the seat is taken but the vacancy count is not decremented
TakeSeat_NoDecrement(section, seatNum) ==
    LET taken == [section EXCEPT !.Seats[seatNum].Available = FALSE]
    IN  [taken EXCEPT !.FirstVacant = NextFirstVacant(taken, seatNum + 1)]

\* mutant: the first-vacant pointer is left on the seat just taken
TakeSeat_NoAdvance(section, seatNum) ==
    [section EXCEPT !.Seats[seatNum].Available = FALSE,
                    !.VacantSeats = @ - 1,
                    !.FirstVacant = seatNum]

\* "Found a seat - assign it"
TakeSeat(section, seatNum) ==
    LET taken == [section EXCEPT !.Seats[seatNum].Available = FALSE,
                                 !.VacantSeats = @ - 1]
    IN  [taken EXCEPT !.FirstVacant = NextFirstVacant(taken, seatNum + 1)]

\* mutant: the cursor stays on the section that yielded the seat
CursorAfter_Stay(sm, currentIdx) == currentIdx % Len(sm.SectionOrder)

\* mutant: the cursor is simply incremented, whatever section yielded the seat
CursorAfter_Increment(sm, currentIdx) == (sm.nextSectionIdx + 1) % Len(sm.SectionOrder)

\* mutant: the cursor does not wrap around after the last section
CursorAfter_NoWrap(sm, currentIdx) == currentIdx + 1

\* "Update next section for round-robin": the cursor after the section at
\* currentIdx yielded a seat
CursorAfter(sm, currentIdx) == (currentIdx + 1) % Len(sm.SectionOrder)

\* mutant: the search starts at the first section, not at the cursor
CandidateIdx_IgnoreCursor(sm, i) == i % Len(sm.SectionOrder)

\* the section index tried in iteration i
CandidateIdx(sm, i) == (sm.nextSectionIdx + i) % Len(sm.SectionOrder)

\* mutant: a section with one vacant seat left is skipped too
SkipSection_OffByOne(section) == section.VacantSeats <= 1

\* "Skip if no vacant seats"
SkipSection(section) == section.VacantSeats <= 0

\* iterations i, i+1, ... of "for i := 0; i < totalSections; i++"
RECURSIVE TrySections(_, _, _)
TrySections(sm, i, repaired) ==
    LET totalSections == Len(sm.SectionOrder) IN
    IF i >= totalSections
    THEN [sm |-> sm, section |-> "", seat |-> -1, err |-> "no available seats",
          repaired |-> repaired]
    ELSE
      LET currentIdx  == CandidateIdx(sm, i)
          sectionName == sm.SectionOrder[currentIdx + 1]
          section     == sm.Sections[sectionName]
      IN
      IF SkipSection(section)
      THEN TrySections(sm, i + 1, repaired)
      ELSE
        LET seatNum == FindAvailable(section, section.FirstVacant) IN
        IF seatNum <= section.MaxSeats
        THEN [ sm |-> [sm EXCEPT !.Sections[sectionName] = TakeSeat(section, seatNum),
                                 !.nextSectionIdx = CursorAfter(sm, currentIdx)],
               section  |-> section.Name,
               seat     |-> section.Seats[seatNum].Number,
               err      |-> NoError,
               repaired |-> repaired ]
        ELSE \* "there was an inconsistency - fix the count"
             TrySections([sm EXCEPT !.Sections[sectionName].VacantSeats = 0], i + 1, TRUE)

DoAssignSeat(sm) ==
    IF Len(sm.SectionOrder) = 0
    THEN [sm |-> sm, section |-> "", seat |-> -1, err |-> "no available sections",
          repaired |-> FALSE]
    ELSE TrySections(sm, 0, FALSE)

-----------------------------------------------------------------------------
(* SeatManager.ReleaseSeat *)

\* mutant: releasing a seat that is already available is not rejected
ReleaseSeatError_NoAvailableCheck(sm, sectionName, seatNumber) ==
    IF sectionName \notin DOMAIN sm.Sections
    THEN "section does not exist"
    ELSE IF seatNumber \notin DOMAIN sm.Sections[sectionName].Seats
    THEN "seat does not exist in section"
    ELSE NoError

\* the checks of ReleaseSeat: the error returned, NoError when all pass
ReleaseSeatError(sm, sectionName, seatNumber) ==
    IF sectionName \notin DOMAIN sm.Sections
    THEN "section does not exist"
    ELSE IF seatNumber \notin DOMAIN sm.Sections[sectionName].Seats
    THEN "seat does not exist in section"
    ELSE IF sm.Sections[sectionName].Seats[seatNumber].Available
    THEN "seat is already available in section"
    ELSE NoError

\* mutant: the seat is freed but the vacancy count is not incremented
FreeSeat_NoIncrement(section, seatNumber) ==
    [section EXCEPT !.Seats[seatNumber].Available = TRUE]

\* mutant: the seat is replaced by a new available seat without its number
FreeSeat_ForgetNumber(section, seatNumber) ==
    [section EXCEPT !.Seats[seatNumber] = [Number |-> 0, Available |-> TRUE],
                    !.VacantSeats = @ + 1]

\* "Update seat status"
FreeSeat(section, seatNumber) ==
    [section EXCEPT !.Seats[seatNumber].Available = TRUE,
                    !.VacantSeats = @ + 1]

\* mutant: the hint is set to the released seat whichever is lower
LowerFirstVacant_Always(section, seatNumber) ==
    [section EXCEPT !.FirstVacant = seatNumber]

\* mutant: the first-vacant pointer is never lowered
LowerFirstVacant_Never(section, seatNumber) == section

\* "Update first vacant pointer if this is now earlier than current pointer"
LowerFirstVacant(section, seatNumber) ==
    IF seatNumber < section.FirstVacant
    THEN [section EXCEPT !.FirstVacant = seatNumber]
    ELSE section

\* mutant: a release sends the round-robin cursor back to the first section
DoReleaseSeat_ResetCursor(sm, sectionName, seatNumber) ==
    LET err == ReleaseSeatError(sm, sectionName, seatNumber) IN
    IF err # NoError
    THEN [sm |-> sm, err |-> err]
    ELSE [sm  |-> [sm EXCEPT !.Sections[sectionName] =
                       LowerFirstVacant(FreeSeat(sm.Sections[sectionName], seatNumber),
                                        seatNumber),
                             !.nextSectionIdx = 0],
          err |-> NoError]

DoReleaseSeat(sm, sectionName, seatNumber) ==
    LET err == ReleaseSeatError(sm, sectionName, seatNumber) IN
    IF err # NoError
    THEN [sm |-> sm, err |-> err]
    ELSE [sm  |-> [sm EXCEPT !.Sections[sectionName] =
                       LowerFirstVacant(FreeSeat(sm.Sections[sectionName], seatNumber),
                                        seatNumber)],
          err |-> NoError]

-----------------------------------------------------------------------------
(* SeatManager.UpdateSeat *)

\* mutant: a move into an occupied seat is not rejected
UpdateSeatError_NoOccupiedCheck(sm, currSeat, currSection, reqSeat, reqSection) ==
    IF currSection \notin DOMAIN sm.Sections
    THEN "current section does not exist"
    ELSE IF reqSection \notin DOMAIN sm.Sections
    THEN "requested section does not exist"
    ELSE IF currSeat \notin DOMAIN sm.Sections[currSection].Seats
    THEN "seat does not exist in section"
    ELSE IF sm.Sections[currSection].Seats[currSeat].Available
    THEN "current seat is not occupied"
    ELSE IF reqSeat \notin DOMAIN sm.Sections[reqSection].Seats
    THEN "requested seat does not exist in section"
    ELSE NoError

\* mutant: a move out of a seat that is not occupied is not rejected
UpdateSeatError_NoCurrentCheck(sm, currSeat, currSection, reqSeat, reqSection) ==
    IF currSection \notin DOMAIN sm.Sections
    THEN "current section does not exist"
    ELSE IF reqSection \notin DOMAIN sm.Sections
    THEN "requested section does not exist"
    ELSE IF currSeat \notin DOMAIN sm.Sections[currSection].Seats
    THEN "seat does not exist in section"
    ELSE IF reqSeat \notin DOMAIN sm.Sections[reqSection].Seats
    THEN "requested seat does not exist in section"
    ELSE IF ~ sm.Sections[reqSection].Seats[reqSeat].Available
    THEN "requested seat is not available"
    ELSE NoError

\* the checks of UpdateSeat, in the order of the code: the error returned,
\* NoError when all pass
UpdateSeatError(sm, currSeat, currSection, reqSeat, reqSection) ==
    IF currSection \notin DOMAIN sm.Sections
    THEN "current section does not exist"
    ELSE IF reqSection \notin DOMAIN sm.Sections
    THEN "requested section does not exist"
    ELSE IF currSeat \notin DOMAIN sm.Sections[currSection].Seats
    THEN "seat does not exist in section"
    ELSE IF sm.Sections[currSection].Seats[currSeat].Available
    THEN "current seat is not occupied"
    ELSE IF reqSeat \notin DOMAIN sm.Sections[reqSection].Seats
    THEN "requested seat does not exist in section"
    ELSE IF ~ sm.Sections[reqSection].Seats[reqSeat].Available
    THEN "requested seat is not available"
    ELSE NoError

\* mutant: the destination section's vacancy count is not decremented
MoveSeat_NoDecrement(sections, currSeat, currSection, reqSeat, reqSection) ==
    LET s1 == [sections EXCEPT ![currSection].Seats[currSeat].Available = TRUE]
        s2 == [s1 EXCEPT ![reqSection].Seats[reqSeat].Available = FALSE]
        s4 == [s2 EXCEPT ![currSection].VacantSeats = @ + 1]
        s5 == IF currSeat < s4[currSection].FirstVacant
              THEN [s4 EXCEPT ![currSection].FirstVacant = currSeat]
              ELSE s4
    IN  IF reqSeat = s5[reqSection].FirstVacant
        THEN [s5 EXCEPT ![reqSection].FirstVacant =
                            NextFirstVacant(s5[reqSection], reqSeat + 1)]
        ELSE s5

\* mutant: the seat moved out of stays marked occupied
MoveSeat_KeepOld(sections, currSeat, currSection, reqSeat, reqSection) ==
    LET s2 == [sections EXCEPT ![reqSection].Seats[reqSeat].Available = FALSE]
        s3 == [s2 EXCEPT ![currSection].VacantSeats = @ + 1]
        s4 == [s3 EXCEPT ![reqSection].VacantSeats = @ - 1]
        s5 == IF currSeat < s4[currSection].FirstVacant
              THEN [s4 EXCEPT ![currSection].FirstVacant = currSeat]
              ELSE s4
    IN  IF reqSeat = s5[reqSection].FirstVacant
        THEN [s5 EXCEPT ![reqSection].FirstVacant =
                            NextFirstVacant(s5[reqSection], reqSeat + 1)]
        ELSE s5

\* mutant: the hint of the section moved out of is not lowered
MoveSeat_NoLower(sections, currSeat, currSection, reqSeat, reqSection) ==
    LET s1 == [sections EXCEPT ![currSection].Seats[currSeat].Available = TRUE]
        s2 == [s1 EXCEPT ![reqSection].Seats[reqSeat].Available = FALSE]
        s3 == [s2 EXCEPT ![currSection].VacantSeats = @ + 1]
        s4 == [s3 EXCEPT ![reqSection].VacantSeats = @ - 1]
    IN  IF reqSeat = s4[reqSection].FirstVacant
        THEN [s4 EXCEPT ![reqSection].FirstVacant =
                            NextFirstVacant(s4[reqSection], reqSeat + 1)]
        ELSE s4

\* mutant: oldSectionObj and newSectionObj are copies written back one after
\* the other, so that in a move within one section the second write wins
MoveSeat_Copies(sections, currSeat, currSection, reqSeat, reqSection) ==
    LET old  == sections[currSection]
        old1 == [old EXCEPT !.Seats[currSeat].Available = TRUE, !.VacantSeats = @ + 1]
        old2 == IF currSeat < old1.FirstVacant
                THEN [old1 EXCEPT !.FirstVacant = currSeat]
                ELSE old1
        new  == sections[reqSection]
        new1 == [new EXCEPT !.Seats[reqSeat].Available = FALSE, !.VacantSeats = @ - 1]
        new2 == IF reqSeat = new1.FirstVacant
                THEN [new1 EXCEPT !.FirstVacant = NextFirstVacant(new1, reqSeat + 1)]
                ELSE new1
        written == [sections EXCEPT ![currSection] = old2]
    IN  [written EXCEPT ![reqSection] = new2]

\* mutant: the hint of the section moved into is not advanced
MoveSeat_NoAdvance(sections, currSeat, currSection, reqSeat, reqSection) ==
    LET s1 == [sections EXCEPT ![currSection].Seats[currSeat].Available = TRUE]
        s2 == [s1 EXCEPT ![reqSection].Seats[reqSeat].Available = FALSE]
        s3 == [s2 EXCEPT ![currSection].VacantSeats = @ + 1]
        s4 == [s3 EXCEPT ![reqSection].VacantSeats = @ - 1]
    IN  IF currSeat < s4[currSection].FirstVacant
        THEN [s4 EXCEPT ![currSection].FirstVacant = currSeat]
        ELSE s4

\* the writes of UpdateSeat once the checks have passed. oldSectionObj and
\* newSectionObj are pointers into the same map: when currSection = reqSection
\* they are one object, and each statement sees the writes of those before it.
MoveSeat(sections, currSeat, currSection, reqSeat, reqSection) ==
    LET s1 == [sections EXCEPT ![currSection].Seats[currSeat].Available = TRUE]
        s2 == [s1 EXCEPT ![reqSection].Seats[reqSeat].Available = FALSE]
        s3 == [s2 EXCEPT ![currSection].VacantSeats = @ + 1]
        s4 == [s3 EXCEPT ![reqSection].VacantSeats = @ - 1]
        s5 == IF currSeat < s4[currSection].FirstVacant
              THEN [s4 EXCEPT ![currSection].FirstVacant = currSeat]
              ELSE s4
    IN  IF reqSeat = s5[reqSection].FirstVacant
        THEN [s5 EXCEPT ![reqSection].FirstVacant =
                            NextFirstVacant(s5[reqSection], reqSeat + 1)]
        ELSE s5

DoUpdateSeat(sm, currSeat, currSection, reqSeat, reqSection) ==
    LET err == UpdateSeatError(sm, currSeat, currSection, reqSeat, reqSection) IN
    IF err # NoError
    THEN [sm |-> sm, err |-> err]
    ELSE [sm  |-> [sm EXCEPT !.Sections =
                       MoveSeat(sm.Sections, currSeat, currSection, reqSeat, reqSection)],
          err |-> NoError]

-----------------------------------------------------------------------------
(* Requests and responses *)

Codes == {"OK", "InvalidArgument", "NotFound"}

Seat(section, seatNumber) == [SeatNumber |-> seatNumber, Section |-> section]

\* pb.PurchaseTicketRequest; nil is the nil request, userPresent is User != nil
PurchaseReq(userPresent, email, from, to) ==
    [nil |-> FALSE, userPresent |-> userPresent, email |-> email, from |-> from, to |-> to]

NilPurchaseReq == [PurchaseReq(FALSE, "", "", "") EXCEPT !.nil = TRUE]

\* pb.GetReceiptRequest and pb.RemoveUserRequest
EmailReq(email) == [nil |-> FALSE, email |-> email]

NilEmailReq == [nil |-> TRUE, email |-> ""]

\* pb.GetUsersBySectionRequest
SectionReq(section) == [nil |-> FALSE, section |-> section]

NilSectionReq == [nil |-> TRUE, section |-> ""]

\* pb.UpdateUserSeatRequest; newSeatPresent is NewSeat != nil
UpdateReq(email, newSeatPresent, section, seatNumber) ==
    [nil |-> FALSE, email |-> email, newSeatPresent |-> newSeatPresent,
     section |-> section, seatNumber |-> seatNumber]

NilUpdateReq == [UpdateReq("", FALSE, "", 0) EXCEPT !.nil = TRUE]

\* the record of a call that has not happened: the call's name, the status
\* code and message (or the allocator's error), and what the call returned
NoCall ==
    [ op |-> "init", code |-> "OK", err |-> NoError,
      assignCalled |-> FALSE, outSection |-> "", outSeat |-> -1, repaired |-> FALSE,
      receipt |-> << >>, users |-> << >>, removedUser |-> "" ]

-----------------------------------------------------------------------------------------------------------------------------------------------------
(* TicketManager *)

\* the orchestrator as one value
TM == [sm |-> SM, Receipts |-> Receipts]

NewTicketManager(seatManager) == [sm |-> seatManager, Receipts |-> << >>]

\* a response with status code and message and nothing else in it
Respond(tm, code, msg) ==
    [ tm |-> tm, code |-> code, err |-> msg, receipt |-> << >>,
      assignCalled |-> FALSE, outSection |-> "", outSeat |-> -1, repaired |-> FALSE,
      removedUser |-> "" ]

\* mutant: a requester's existing record is kept
PutReceipt_KeepExisting(receipts, email, receipt) ==
    [e \in DOMAIN receipts \cup {email} |->
        IF e \in DOMAIN receipts THEN receipts[e] ELSE receipt]

\* tm.Receipts[email] = receipt
PutReceipt(receipts, email, receipt) ==
    [e \in DOMAIN receipts \cup {email} |-> IF e = email THEN receipt ELSE receipts[e]]

\* mutant: the record is not deleted
DeleteReceipt_Keep(receipts, email) == receipts

\* mutant: the whole table is cleared
DeleteReceipt_All(receipts, email) == << >>

\* delete(tm.Receipts, email)
DeleteReceipt(receipts, email) ==
    [e \in DOMAIN receipts \ {email} |-> receipts[e]]

\* fmt.Sprintf("%s-%s", req.From, req.To)
ConnectionKey(from, to) == from \o "-" \o to

DoPurchaseTicket(tm, req) ==
    IF req.nil THEN Respond(tm, "InvalidArgument", "request is nil")
    ELSE IF ~ req.userPresent \/ req.email = "" \/ req.from = "" \/ req.to = ""
    THEN Respond(tm, "InvalidArgument", "missing required fields")
    ELSE
      LET connectionStations == ConnectionKey(req.from, req.to) IN
      IF PriceOf(connectionStations) = 0
      THEN Respond(tm, "InvalidArgument", "invalid station")
      ELSE
        LET a == DoAssignSeat(tm.sm) IN
        IF a.err # NoError
        THEN [Respond([tm EXCEPT !.sm = a.sm], "NotFound", "failed to assign seat") EXCEPT
                  !.assignCalled = TRUE, !.repaired = a.repaired]
        ELSE
          LET receipt == [ User      |-> req.email,
                           From      |-> req.from,
                           To        |-> req.to,
                           PricePaid |-> PriceOf(connectionStations),
                           Seat      |-> Seat(a.section, a.seat) ]
          IN [ tm |-> [sm |-> a.sm,
                       Receipts |-> PutReceipt(tm.Receipts, req.email, receipt)],
               code |-> "OK", err |-> NoError, receipt |-> <<receipt>>,
               assignCalled |-> TRUE, outSection |-> a.section, outSeat |-> a.seat,
               repaired |-> a.repaired, removedUser |-> "" ]

\* mutant: an empty email is looked up like any other
DoGetReceipt_EmptyEmailNotFound(tm, req) ==
    IF req.nil THEN Respond(tm, "InvalidArgument", "request is nil")
    ELSE IF req.email \notin DOMAIN tm.Receipts
    THEN Respond(tm, "NotFound", "ticket receipt not found")
    ELSE [Respond(tm, "OK", NoError) EXCEPT !.receipt = <<tm.Receipts[req.email]>>]

DoGetReceipt(tm, req) ==
    IF req.nil THEN Respond(tm, "InvalidArgument", "request is nil")
    ELSE IF req.email = "" THEN Respond(tm, "InvalidArgument", "missing required fields")
    ELSE IF req.email \notin DOMAIN tm.Receipts
    THEN Respond(tm, "NotFound", "ticket receipt not found")
    ELSE [Respond(tm, "OK", NoError) EXCEPT !.receipt = <<tm.Receipts[req.email]>>]

\* mutant: the records are not filtered by section
UserSeats_AllSections(tm, section) ==
    { [User |-> tm.Receipts[e].User, AllottedSeat |-> tm.Receipts[e].Seat.SeatNumber] :
        e \in DOMAIN tm.Receipts }

\* the pb.UserSeat entries the range loop over tm.Receipts appends
UserSeats(tm, section) ==
    { [User |-> tm.Receipts[e].User, AllottedSeat |-> tm.Receipts[e].Seat.SeatNumber] :
        e \in {x \in DOMAIN tm.Receipts : tm.Receipts[x].Seat.Section = section} }

\* the orders in which the range loop can visit the entries of the map
Orderings(S) ==
    { q \in [1..Cardinality(S) -> S] : \A i, j \in 1..Cardinality(S) : q[i] = q[j] => i = j }

\* GetUsersBySection up to the order of Users, which Go leaves open:
\* users is the set of the lists the call can return
DoGetUsersBySection(tm, req) ==
    IF req.nil
    THEN [tm |-> tm, code |-> "InvalidArgument", err |-> "request is nil", users |-> {<< >>}]
    ELSE IF req.section = ""
    THEN [tm |-> tm, code |-> "InvalidArgument", err |-> "missing required fields",
          users |-> {<< >>}]
    ELSE IF req.section \notin DOMAIN tm.sm.Sections
    THEN [tm |-> tm, code |-> "NotFound", err |-> "section not found", users |-> {<< >>}]
    ELSE [tm |-> tm, code |-> "OK", err |-> NoError,
          users |-> Orderings(UserSeats(tm, req.section))]

\* mutant: the record is looked up before the request's fields are checked
DoUpdateUserSeat_LookupFirst(tm, req) ==
    IF req.nil THEN Respond(tm, "InvalidArgument", "request is nil")
    ELSE IF req.email \notin DOMAIN tm.Receipts
    THEN Respond(tm, "NotFound", "ticket receipt not found")
    ELSE IF req.email = "" \/ ~ req.newSeatPresent \/ req.section = "" \/ req.seatNumber = 0
    THEN Respond(tm, "InvalidArgument", "missing required fields")
    ELSE
      LET receipt == tm.Receipts[req.email]
          u == DoUpdateSeat(tm.sm, receipt.Seat.SeatNumber, receipt.Seat.Section,
                            req.seatNumber, req.section)
      IN
      IF u.err # NoError
      THEN Respond([tm EXCEPT !.sm = u.sm], "NotFound", "failed to update seat")
      ELSE
        LET updated == [receipt EXCEPT !.Seat = Seat(req.section, req.seatNumber)] IN
        [Respond([sm |-> u.sm, Receipts |-> PutReceipt(tm.Receipts, req.email, updated)],
                 "OK", NoError)
            EXCEPT !.receipt = <<updated>>]

DoUpdateUserSeat(tm, req) ==
    IF req.nil THEN Respond(tm, "InvalidArgument", "request is nil")
    ELSE IF req.email = "" \/ ~ req.newSeatPresent \/ req.section = "" \/ req.seatNumber = 0
    THEN Respond(tm, "InvalidArgument", "missing required fields")
    ELSE IF req.email \notin DOMAIN tm.Receipts
    THEN Respond(tm, "NotFound", "ticket receipt not found")
    ELSE
      LET receipt == tm.Receipts[req.email]
          u == DoUpdateSeat(tm.sm, receipt.Seat.SeatNumber, receipt.Seat.Section,
                            req.seatNumber, req.section)
      IN
      IF u.err # NoError
      THEN Respond([tm EXCEPT !.sm = u.sm], "NotFound", "failed to update seat")
      ELSE
        LET updated == [receipt EXCEPT !.Seat = Seat(req.section, req.seatNumber)] IN
        [Respond([sm |-> u.sm, Receipts |-> PutReceipt(tm.Receipts, req.email, updated)],
                 "OK", NoError)
            EXCEPT !.receipt = <<updated>>]

DoRemoveUser(tm, req) ==
    IF req.nil THEN Respond(tm, "InvalidArgument", "request is nil")
    ELSE IF req.email = "" THEN Respond(tm, "InvalidArgument", "missing required fields")
    ELSE IF req.email \notin DOMAIN tm.Receipts
    THEN Respond(tm, "NotFound", "ticket receipt not found")
    ELSE
      LET receipt == tm.Receipts[req.email]
          r == DoReleaseSeat(tm.sm, receipt.Seat.Section, receipt.Seat.SeatNumber)
      IN
      IF r.err # NoError
      THEN Respond([tm EXCEPT !.sm = r.sm], "NotFound", "failed to release seat")
      ELSE [Respond([sm |-> r.sm, Receipts |-> DeleteReceipt(tm.Receipts, req.email)],
                    "OK", NoError)
                EXCEPT !.removedUser = receipt.User]

-----------------------------------------------------------------------------
(* The inputs of the calls *)

UserEmails == {"u1", "u2"}

EmailArgs == {""} \cup UserEmails

FromArgs == {"", "London"}

\* "London-Paris" is priced zero and "London-Rome" is not in the table
ToArgs == {"", "France", "Paris", "Rome"}

\* section names passed to the allocator: the configured ones and an unknown one
SectionArgs == DOMAIN Sections \cup {"Z"}

\* seat numbers passed in: 0 and MaxSeats + 1 exist in no section
SeatArgs == 0..(MaxSeats + 1)

\* seat numbers that are not the "unset" sentinel 0 of UpdateUserSeatRequest;
\* MaxSeats + 1 is still a seat that exists nowhere
NonZeroSeatArgs == SeatArgs \ {0}

\* the nil request, a request without User, every email on the priced route,
\* and every route for one requester
PurchaseReqs ==
    {NilPurchaseReq, PurchaseReq(FALSE, "", "London", "France")}
    \cup {PurchaseReq(TRUE, e, "London", "France") : e \in EmailArgs}
    \cup {PurchaseReq(TRUE, "u1", f, t) : f \in FromArgs, t \in ToArgs}

EmailReqs == {NilEmailReq} \cup {EmailReq(e) : e \in EmailArgs}

SectionReqs == {NilSectionReq} \cup {SectionReq(s) : s \in SectionArgs \cup {""}}

\* the nil request, requests without NewSeat, with an empty section, with seat
\* number 0 or with an empty email, and every well-formed request
UpdateReqs ==
    {NilUpdateReq, UpdateReq("", TRUE, "A", 1)}
    \cup {UpdateReq(e, FALSE, "", 0) : e \in EmailArgs}
    \cup {UpdateReq(e, TRUE, "", 1) : e \in EmailArgs}
    \cup {UpdateReq(e, TRUE, "A", 0) : e \in EmailArgs}
    \cup {UpdateReq(e, TRUE, s, n) : e \in UserEmails, s \in SectionArgs, n \in NonZeroSeatArgs}

-----------------------------------------------------------------------------
(* The run of consecutive successful AssignSeat calls *)

\* every seat of the section is marked available
AllAvailable(section) ==
    \A k \in DOMAIN section.Seats : section.Seats[k].Available

\* the section has a seat marked available
HasAvailable(section) ==
    \E k \in DOMAIN section.Seats : section.Seats[k].Available

\* the allocator is as NewSeatManager left it
Fresh ==
    /\ nextSectionIdx = 0
    /\ \A n \in DOMAIN Sections :
         /\ AllAvailable(Sections[n])
         /\ Sections[n].VacantSeats = Sections[n].MaxSeats
         /\ Sections[n].FirstVacant = 1

LastN(q, n) == IF Len(q) <= n THEN q ELSE SubSeq(q, Len(q) - n + 1, Len(q))

\* hist after a call: a successful AssignSeat extends the run, anything else ends it
HistAfter(assignCalled, err, section, seat) ==
    IF assignCalled /\ err = NoError
    THEN LastN(Append(hist, [ cursor  |-> nextSectionIdx,
                              allFree |-> \A n \in DOMAIN Sections : HasAvailable(Sections[n]),
                              fresh   |-> Fresh,
                              section |-> section,
                              seat    |-> seat ]), HistLen)
    ELSE << >>

\* freed after ReleaseSeat(sectionName, seatNumber): the seat is remembered when
\* the call succeeded and the call before it was the AssignSeat that returned it
FreedAfterRelease(err, sectionName, seatNumber) ==
    IF /\ err = NoError
       /\ ret.op = "AssignSeat" /\ ret.err = NoError
       /\ ret.outSection = sectionName /\ ret.outSeat = seatNumber
    THEN << [section |-> sectionName, seat |-> seatNumber,
             between |-> FALSE, reused |-> FALSE] >>
    ELSE << >>

\* freed after AssignSeat: an assignment in another section is noted (between),
\* the first assignment in the section of the freed seat is noted (reused), and
\* the call after that one forgets the seat
FreedAfterAssign(err, section) ==
    IF err # NoError \/ freed = << >> THEN << >>
    ELSE IF freed[1].reused THEN << >>
    ELSE IF section = freed[1].section THEN << [freed[1] EXCEPT !.reused = TRUE] >>
    ELSE << [freed[1] EXCEPT !.between = TRUE] >>

\* moved after UpdateSeat(currSeat, currSection, reqSeat, reqSection): a call
\* that follows a successful move and asks for the move back is noted (back);
\* any other successful call is remembered with the allocator it started from
MovedAfter(err, currSeat, currSection, reqSeat, reqSection) ==
    IF /\ moved # << >> /\ ~ moved[1].back
       /\ Seat(currSection, currSeat) = moved[1].to
       /\ Seat(reqSection, reqSeat) = moved[1].from
    THEN << [moved[1] EXCEPT !.back = TRUE] >>
    ELSE IF err = NoError
    THEN << [ before |-> SM,
              from   |-> Seat(currSection, currSeat),
              to     |-> Seat(reqSection, reqSeat),
              back   |-> FALSE ] >>
    ELSE << >>

-----------------------------------------------------------------------------
(* Request handlers: the gRPC server runs each RPC on a goroutine of its own *)

Handlers == 1..NumHandlers

\* an unlocked sync.Mutex
NoHolder == 0

\* mutant: Lock never waits
CanLock_Always(mu) == TRUE

\* mu.Lock() returns only when no one holds mu
CanLock(mu) == mu = NoHolder

\* mutant: the deferred Unlock is missing
Unlock_Never(mu) == mu

\* "defer mu.Unlock()": runs on every return of the method
Unlock(mu) == NoHolder

\* GetUsersBySection's Users of a response that has none, as the set of the
\* lists the call can return
NoUsers == {<< >>}

\* what an RPC returns: the status code and message and the response's content
Response(code, err, receipt, users) ==
    [code |-> code, err |-> err, receipt |-> receipt, users |-> users]

NoResponse == Response("", NoError, << >>, NoUsers)

\* what AssignSeat, ReleaseSeat or UpdateSeat returned to the RPC
NoOut == [err |-> NoError, section |-> "", seat |-> -1]

\* an RPC a handler has been given: the method and its request, the record
\* found by the lookup, what the allocator returned, how many allocator calls
\* were made, the response, and the response of the serial run
Activation(rpc, req) ==
    [ rpc |-> rpc, req |-> req, receipt |-> << >>, out |-> NoOut, allocCalls |-> 0,
      resp |-> NoResponse, expect |-> NoResponse ]

NoActivation == Activation("", NilEmailReq)

\* the RPCs the handlers are given: purchases of both requesters and one on
\* a route without a price, a lookup, a listing, a move and cancellations
ConcCalls ==
    {Activation("PurchaseTicket", PurchaseReq(TRUE, e, "London", "France")) : e \in UserEmails}
    \cup {Activation("PurchaseTicket", PurchaseReq(TRUE, "u1", "London", "Rome"))}
    \cup {Activation("GetReceipt", EmailReq("u1"))}
    \cup {Activation("GetUsersBySection", SectionReq("A"))}
    \cup {Activation("UpdateUserSeat", UpdateReq("u1", TRUE, "B", 1))}
    \cup {Activation("RemoveUser", EmailReq(e)) : e \in UserEmails}

\* the RPC of activation c run alone on tm, from Lock to Unlock
DoCall(tm, c) ==
    CASE c.rpc = "PurchaseTicket" ->
           LET p == DoPurchaseTicket(tm, c.req) IN
           [tm |-> p.tm, resp |-> Response(p.code, p.err, p.receipt, NoUsers)]
      [] c.rpc = "GetReceipt" ->
           LET g == DoGetReceipt(tm, c.req) IN
           [tm |-> g.tm, resp |-> Response(g.code, g.err, g.receipt, NoUsers)]
      [] c.rpc = "GetUsersBySection" ->
           LET g == DoGetUsersBySection(tm, c.req) IN
           [tm |-> g.tm, resp |-> Response(g.code, g.err, << >>, g.users)]
      [] c.rpc = "UpdateUserSeat" ->
           LET u == DoUpdateUserSeat(tm, c.req) IN
           [tm |-> u.tm, resp |-> Response(u.code, u.err, u.receipt, NoUsers)]
      [] c.rpc = "RemoveUser" ->
           LET r == DoRemoveUser(tm, c.req) IN
           [tm |-> r.tm, resp |-> Response(r.code, r.err, << >>, NoUsers)]

-----------------------------------------------------------------------------
(* Actions: one call each *)

SetSM(sm) ==
    /\ Sections' = sm.Sections
    /\ SectionOrder' = sm.SectionOrder
    /\ nextSectionIdx' = sm.nextSectionIdx

SetTM(tm) ==
    /\ SetSM(tm.sm)
    /\ Receipts' = tm.Receipts

AssignSeat ==
    LET a == DoAssignSeat(SM) IN
    /\ SetSM(a.sm)
    /\ ret' = [NoCall EXCEPT !.op = "AssignSeat", !.err = a.err, !.assignCalled = TRUE,
                             !.outSection = a.section, !.outSeat = a.seat,
                             !.repaired = a.repaired]
    /\ hist' = HistAfter(TRUE, a.err, a.section, a.seat)
    /\ freed' = FreedAfterAssign(a.err, a.section)
    /\ moved' = << >>
    /\ UNCHANGED Receipts
    /\ UNCHANGED handlerVars

ReleaseSeat(sectionName, seatNumber) ==
    LET r == DoReleaseSeat(SM, sectionName, seatNumber) IN
    /\ SetSM(r.sm)
    /\ ret' = [NoCall EXCEPT !.op = "ReleaseSeat", !.err = r.err]
    /\ hist' = << >>
    /\ freed' = FreedAfterRelease(r.err, sectionName, seatNumber)
    /\ moved' = << >>
    /\ UNCHANGED Receipts
    /\ UNCHANGED handlerVars

UpdateSeat(currSeat, currSection, reqSeat, reqSection) ==
    LET u == DoUpdateSeat(SM, currSeat, currSection, reqSeat, reqSection) IN
    /\ SetSM(u.sm)
    /\ ret' = [NoCall EXCEPT !.op = "UpdateSeat", !.err = u.err]
    /\ hist' = << >>
    /\ freed' = << >>
    /\ moved' = MovedAfter(u.err, currSeat, currSection, reqSeat, reqSection)
    /\ UNCHANGED Receipts
    /\ UNCHANGED handlerVars

PurchaseTicket(req) ==
    LET p == DoPurchaseTicket(TM, req) IN
    /\ SetTM(p.tm)
    /\ ret' = [NoCall EXCEPT !.op = "PurchaseTicket", !.code = p.code, !.err = p.err,
                             !.assignCalled = p.assignCalled,
                             !.outSection = p.outSection, !.outSeat = p.outSeat,
                             !.repaired = p.repaired, !.receipt = p.receipt]
    /\ hist' = HistAfter(p.assignCalled, p.err, p.outSection, p.outSeat)
    /\ UNCHANGED <<freed, moved>>
    /\ UNCHANGED handlerVars

GetReceipt(req) ==
    LET g == DoGetReceipt(TM, req) IN
    /\ SetTM(g.tm)
    /\ ret' = [NoCall EXCEPT !.op = "GetReceipt", !.code = g.code, !.err = g.err,
                             !.receipt = g.receipt]
    /\ hist' = << >>
    /\ UNCHANGED <<freed, moved>>
    /\ UNCHANGED handlerVars

GetUsersBySection(req) ==
    LET g == DoGetUsersBySection(TM, req) IN
    /\ SetTM(g.tm)
    /\ \E users \in g.users :
         ret' = [NoCall EXCEPT !.op = "GetUsersBySection", !.code = g.code, !.err = g.err,
                               !.users = users]
    /\ hist' = << >>
    /\ UNCHANGED <<freed, moved>>
    /\ UNCHANGED handlerVars

UpdateUserSeat(req) ==
    LET u == DoUpdateUserSeat(TM, req) IN
    /\ SetTM(u.tm)
    /\ ret' = [NoCall EXCEPT !.op = "UpdateUserSeat", !.code = u.code, !.err = u.err,
                             !.receipt = u.receipt]
    /\ hist' = << >>
    /\ UNCHANGED <<freed, moved>>
    /\ UNCHANGED handlerVars

RemoveUser(req) ==
    LET r == DoRemoveUser(TM, req) IN
    /\ SetTM(r.tm)
    /\ ret' = [NoCall EXCEPT !.op = "RemoveUser", !.code = r.code, !.err = r.err,
                             !.removedUser = r.removedUser]
    /\ hist' = << >>
    /\ UNCHANGED <<freed, moved>>
    /\ UNCHANGED handlerVars

-----------------------------------------------------------------------------
(* Actions: the steps of a request handler *)

\* what a step of a handler leaves alone besides what it names
HandlerFrame == UNCHANGED <<ret, hist, freed, moved>>

\* handler h returns status code and message: the deferred Unlock is next
Reply(h, code, msg, receipt, users) ==
    /\ pc' = [pc EXCEPT ![h] = "tmUnlock"]
    /\ call' = [call EXCEPT ![h].resp = Response(code, msg, receipt, users)]

\* handler h goes on to its allocator call, with the record its lookup found
Proceed(h, receipt) ==
    /\ pc' = [pc EXCEPT ![h] = "smLock"]
    /\ call' = [call EXCEPT ![h].receipt = receipt]

\* the server hands RPC c to the idle handler h
Call(h, c) ==
    /\ pc[h] = "idle"
    /\ pc' = [pc EXCEPT ![h] = "tmLock"]
    /\ call' = [call EXCEPT ![h] = c]
    /\ UNCHANGED <<Sections, SectionOrder, nextSectionIdx, Receipts, tmMu, smMu, serial>>
    /\ HandlerFrame

\* tm.mu.Lock() returns in handler h
AcquireTM(h) ==
    /\ pc[h] = "tmLock"
    /\ CanLock(tmMu)
    /\ tmMu' = h
    /\ pc' = [pc EXCEPT ![h] = "check"]

\* tm.mu.Lock(); the serial run executes the whole RPC here
LockTM(h) ==
    /\ AcquireTM(h)
    /\ LET d == DoCall(serial, call[h]) IN
       /\ serial' = d.tm
       /\ call' = [call EXCEPT ![h].expect = d.resp]
    /\ UNCHANGED <<Sections, SectionOrder, nextSectionIdx, Receipts, smMu>>
    /\ HandlerFrame

\* the RPC up to its allocator call: the checks of the request and the lookup
\* of the record; GetReceipt and GetUsersBySection end here
Check(h) ==
    /\ pc[h] = "check"
    /\ LET c == call[h]
           req == c.req
       IN CASE c.rpc = "PurchaseTicket" ->
                 IF req.nil
                 THEN Reply(h, "InvalidArgument", "request is nil", << >>, NoUsers)
                 ELSE IF ~ req.userPresent \/ req.email = "" \/ req.from = "" \/ req.to = ""
                 THEN Reply(h, "InvalidArgument", "missing required fields", << >>, NoUsers)
                 ELSE IF PriceOf(ConnectionKey(req.from, req.to)) = 0
                 THEN Reply(h, "InvalidArgument", "invalid station", << >>, NoUsers)
                 ELSE Proceed(h, << >>)
            [] c.rpc = "GetReceipt" ->
                 IF req.nil
                 THEN Reply(h, "InvalidArgument", "request is nil", << >>, NoUsers)
                 ELSE IF req.email = ""
                 THEN Reply(h, "InvalidArgument", "missing required fields", << >>, NoUsers)
                 ELSE IF req.email \notin DOMAIN Receipts
                 THEN Reply(h, "NotFound", "ticket receipt not found", << >>, NoUsers)
                 ELSE Reply(h, "OK", NoError, <<Receipts[req.email]>>, NoUsers)
            [] c.rpc = "GetUsersBySection" ->
                 IF req.nil
                 THEN Reply(h, "InvalidArgument", "request is nil", << >>, NoUsers)
                 ELSE IF req.section = ""
                 THEN Reply(h, "InvalidArgument", "missing required fields", << >>, NoUsers)
                 ELSE IF req.section \notin DOMAIN Sections
                 THEN Reply(h, "NotFound", "section not found", << >>, NoUsers)
                 ELSE Reply(h, "OK", NoError, << >>, Orderings(UserSeats(TM, req.section)))
            [] c.rpc = "UpdateUserSeat" ->
                 IF req.nil
                 THEN Reply(h, "InvalidArgument", "request is nil", << >>, NoUsers)
                 ELSE IF \/ req.email = "" \/ ~ req.newSeatPresent
                         \/ req.section = "" \/ req.seatNumber = 0
                 THEN Reply(h, "InvalidArgument", "missing required fields", << >>, NoUsers)
                 ELSE IF req.email \notin DOMAIN Receipts
                 THEN Reply(h, "NotFound", "ticket receipt not found", << >>, NoUsers)
                 ELSE Proceed(h, <<Receipts[req.email]>>)
            [] c.rpc = "RemoveUser" ->
                 IF req.nil
                 THEN Reply(h, "InvalidArgument", "request is nil", << >>, NoUsers)
                 ELSE IF req.email = ""
                 THEN Reply(h, "InvalidArgument", "missing required fields", << >>, NoUsers)
                 ELSE IF req.email \notin DOMAIN Receipts
                 THEN Reply(h, "NotFound", "ticket receipt not found", << >>, NoUsers)
                 ELSE Proceed(h, <<Receipts[req.email]>>)
    /\ UNCHANGED <<Sections, SectionOrder, nextSectionIdx, Receipts, tmMu, smMu, serial>>
    /\ HandlerFrame

\* sm.mu.Lock() at the head of AssignSeat, UpdateSeat or ReleaseSeat
LockSM(h) ==
    /\ pc[h] = "smLock"
    /\ CanLock(smMu)
    /\ smMu' = h
    /\ pc' = [pc EXCEPT ![h] = "alloc"]
    /\ UNCHANGED <<Sections, SectionOrder, nextSectionIdx, Receipts, call, tmMu, serial>>
    /\ HandlerFrame

\* the body of the allocator method the RPC calls, under sm.mu
Alloc(h) ==
    /\ pc[h] = "alloc"
    /\ LET c == call[h]
           a == DoAssignSeat(SM)
           u == DoUpdateSeat(SM, c.receipt[1].Seat.SeatNumber, c.receipt[1].Seat.Section,
                             c.req.seatNumber, c.req.section)
           r == DoReleaseSeat(SM, c.receipt[1].Seat.Section, c.receipt[1].Seat.SeatNumber)
       IN CASE c.rpc = "PurchaseTicket" ->
                 /\ SetSM(a.sm)
                 /\ call' = [call EXCEPT ![h].out = [err |-> a.err, section |-> a.section,
                                                     seat |-> a.seat],
                                         ![h].allocCalls = @ + 1]
            [] c.rpc = "UpdateUserSeat" ->
                 /\ SetSM(u.sm)
                 /\ call' = [call EXCEPT ![h].out = [NoOut EXCEPT !.err = u.err],
                                         ![h].allocCalls = @ + 1]
            [] c.rpc = "RemoveUser" ->
                 /\ SetSM(r.sm)
                 /\ call' = [call EXCEPT ![h].out = [NoOut EXCEPT !.err = r.err],
                                         ![h].allocCalls = @ + 1]
    /\ pc' = [pc EXCEPT ![h] = "smUnlock"]
    /\ UNCHANGED <<Receipts, tmMu, smMu, serial>>
    /\ HandlerFrame

\* the deferred sm.mu.Unlock() as the allocator method returns
UnlockSM(h) ==
    /\ pc[h] = "smUnlock"
    /\ smMu' = Unlock(smMu)
    /\ pc' = [pc EXCEPT ![h] = "finish"]
    /\ UNCHANGED <<Sections, SectionOrder, nextSectionIdx, Receipts, call, tmMu, serial>>
    /\ HandlerFrame

\* the RPC after its allocator call: the error becomes NotFound, or the record
\* is stored, updated or deleted and the response built
Finish(h) ==
    /\ pc[h] = "finish"
    /\ LET c == call[h]
           req == c.req
       IN CASE c.rpc = "PurchaseTicket" ->
                 IF c.out.err # NoError
                 THEN /\ Reply(h, "NotFound", "failed to assign seat", << >>, NoUsers)
                      /\ UNCHANGED Receipts
                 ELSE LET receipt == [ User      |-> req.email,
                                       From      |-> req.from,
                                       To        |-> req.to,
                                       PricePaid |-> PriceOf(ConnectionKey(req.from, req.to)),
                                       Seat      |-> Seat(c.out.section, c.out.seat) ]
                      IN /\ Receipts' = PutReceipt(Receipts, req.email, receipt)
                         /\ Reply(h, "OK", NoError, <<receipt>>, NoUsers)
            [] c.rpc = "UpdateUserSeat" ->
                 IF c.out.err # NoError
                 THEN /\ Reply(h, "NotFound", "failed to update seat", << >>, NoUsers)
                      /\ UNCHANGED Receipts
                 ELSE LET updated == [c.receipt[1] EXCEPT
                                         !.Seat = Seat(req.section, req.seatNumber)]
                      IN /\ Receipts' = PutReceipt(Receipts, req.email, updated)
                         /\ Reply(h, "OK", NoError, <<updated>>, NoUsers)
            [] c.rpc = "RemoveUser" ->
                 IF c.out.err # NoError
                 THEN /\ Reply(h, "NotFound", "failed to release seat", << >>, NoUsers)
                      /\ UNCHANGED Receipts
                 ELSE /\ Receipts' = DeleteReceipt(Receipts, req.email)
                      /\ Reply(h, "OK", NoError, << >>, NoUsers)
    /\ UNCHANGED <<Sections, SectionOrder, nextSectionIdx, tmMu, smMu, serial>>
    /\ HandlerFrame

\* the deferred tm.mu.Unlock() as the RPC returns; the handler is idle again
UnlockTM(h) ==
    /\ pc[h] = "tmUnlock"
    /\ tmMu' = Unlock(tmMu)
    /\ pc' = [pc EXCEPT ![h] = "idle"]
    /\ call' = [call EXCEPT ![h] = NoActivation]
    /\ UNCHANGED <<Sections, SectionOrder, nextSectionIdx, Receipts, smMu, serial>>
    /\ HandlerFrame

-----------------------------------------------------------------------------
(* Specifications *)

\* main(): NewSeatManager(cfg.Sections), then NewTicketManager
Init ==
    \E sections \in SectionLayouts :
        LET tm == NewTicketManager(NewSeatManager(sections)) IN
        /\ Sections = tm.sm.Sections
        /\ SectionOrder = tm.sm.SectionOrder
        /\ nextSectionIdx = tm.sm.nextSectionIdx
        /\ Receipts = tm.Receipts
        /\ ret = NoCall
        /\ hist = << >>
        /\ freed = << >>
        /\ moved = << >>
        /\ pc = [h \in Handlers |-> "idle"]
        /\ call = [h \in Handlers |-> NoActivation]
        /\ tmMu = NoHolder
        /\ smMu = NoHolder
        /\ serial = tm

\* main() with two sections of ConcSeats seats
InitConc ==
    LET tm == NewTicketManager(NewSeatManager(<< SectionConfig("A", ConcSeats),
                                                 SectionConfig("B", ConcSeats) >>)) IN
    /\ Sections = tm.sm.Sections
    /\ SectionOrder = tm.sm.SectionOrder
    /\ nextSectionIdx = tm.sm.nextSectionIdx
    /\ Receipts = tm.Receipts
    /\ ret = NoCall
    /\ hist = << >>
    /\ freed = << >>
    /\ moved = << >>
    /\ pc = [h \in Handlers |-> "idle"]
    /\ call = [h \in Handlers |-> NoActivation]
    /\ tmMu = NoHolder
    /\ smMu = NoHolder
    /\ serial = tm

Next ==
    \/ \E req \in PurchaseReqs : PurchaseTicket(req)
    \/ \E req \in EmailReqs : GetReceipt(req)
    \/ \E req \in SectionReqs : GetUsersBySection(req)
    \/ \E req \in UpdateReqs : UpdateUserSeat(req)
    \/ \E req \in EmailReqs : RemoveUser(req)

Spec == Init /\ [][Next]_vars

NextAlloc ==
    \/ AssignSeat
    \/ \E s \in SectionArgs, n \in SeatArgs : ReleaseSeat(s, n)
    \/ \E cs \in SectionArgs, cn \in NonZeroSeatArgs,
          rs \in SectionArgs, rn \in NonZeroSeatArgs :
           UpdateSeat(cn, cs, rn, rs)

SpecAlloc == Init /\ [][NextAlloc]_vars

\* one step of one of the handlers, the RPCs given to them drawn from calls
NextConcOf(calls) ==
    \E h \in Handlers :
        \/ \E c \in calls : Call(h, c)
        \/ LockTM(h)
        \/ Check(h)
        \/ LockSM(h)
        \/ Alloc(h)
        \/ UnlockSM(h)
        \/ Finish(h)
        \/ UnlockTM(h)

\* NumHandlers handlers run RPCs side by side
NextConc == NextConcOf(ConcCalls)

SpecConc == InitConc /\ [][NextConc]_vars

\* the RPCs of one requester: each method once, and the purchase that fails
FairCalls ==
    {c \in ConcCalls : c.rpc \notin {"PurchaseTicket", "RemoveUser"} \/ c.req.email = "u1"}

NextFair == NextConcOf(FairCalls)

\* the steps inside an RPC, of whichever handler can take one
Inside ==
    \E h \in Handlers :
        Check(h) \/ LockSM(h) \/ Alloc(h) \/ UnlockSM(h) \/ Finish(h) \/ UnlockTM(h)

\* a step inside an RPC that can be taken is taken, and a handler waiting for
\* tm.mu while it is free again and again gets it (sync.Mutex hands the lock
\* to a waiter that starves); an RPC need not arrive
SpecConcFair ==
    /\ InitConc /\ [][NextFair]_vars
    /\ WF_vars(Inside)
    /\ \A h \in Handlers : SF_<<pc, tmMu>>(AcquireTM(h))

\* section layouts with room for a section to be two seats ahead of another:
\* two equal sections, and three sections of unequal capacity
GrowLayouts ==
    { << SectionConfig("A", MaxSeats + 1), SectionConfig("B", MaxSeats + 1) >>,
      << SectionConfig("A", 1), SectionConfig("B", MaxSeats + 1),
         SectionConfig("C", MaxSeats) >> }

\* main() with one of the layouts of GrowLayouts
InitGrow ==
    \E sections \in GrowLayouts :
        LET tm == NewTicketManager(NewSeatManager(sections)) IN
        /\ Sections = tm.sm.Sections
        /\ SectionOrder = tm.sm.SectionOrder
        /\ nextSectionIdx = tm.sm.nextSectionIdx
        /\ Receipts = tm.Receipts
        /\ ret = NoCall
        /\ hist = << >>
        /\ freed = << >>
        /\ moved = << >>
        /\ pc = [h \in Handlers |-> "idle"]
        /\ call = [h \in Handlers |-> NoActivation]
        /\ tmMu = NoHolder
        /\ smMu = NoHolder
        /\ serial = tm

\* seats are only ever handed out: AssignSeat is called directly or by
\* PurchaseTicket, and nothing is released, moved or cancelled
NextGrow ==
    \/ AssignSeat
    \/ \E req \in PurchaseReqs : PurchaseTicket(req)

SpecGrow == InitGrow /\ [][NextGrow]_vars

-----------------------------------------------------------------------------
(* Vocabulary of the properties *)

\* the seat numbers of a section that are marked available
AvailableSeats(section) ==
    {k \in DOMAIN section.Seats : section.Seats[k].Available}

\* the seat numbers of a section that are marked unavailable
OccupiedSeats(section) ==
    {k \in DOMAIN section.Seats : ~ section.Seats[k].Available}

Min(S) == CHOOSE x \in S : \A y \in S : x <= y

RECURSIVE SumOver(_, _)
SumOver(S, f) ==
    IF S = {} THEN 0
    ELSE LET x == CHOOSE y \in S : TRUE IN f[x] + SumOver(S \ {x}, f)

\* occupied seats summed over all sections
TotalOccupied ==
    SumOver(DOMAIN Sections, [n \in DOMAIN Sections |-> Cardinality(OccupiedSeats(Sections[n]))])

\* some seat of some section is marked available
AnyAvailable == \E n \in DOMAIN Sections : HasAvailable(Sections[n])

NumSections == Len(SectionOrder)

\* the section at 0-based position idx of the round-robin order, wrapping around
SectionAt(idx) == SectionOrder[(idx % NumSections) + 1]

AllocatorUnchanged == UNCHANGED <<Sections, SectionOrder, nextSectionIdx>>

\* the requests PurchaseTicket finds nothing wrong with
ValidPurchaseReqs ==
    {req \in PurchaseReqs :
        /\ ~ req.nil /\ req.userPresent
        /\ req.email # "" /\ req.from # "" /\ req.to # ""
        /\ PriceOf(ConnectionKey(req.from, req.to)) # 0}

-----------------------------------------------------------------------------
(* C1: under SpecAlloc, in every reachable state each section's VacantSeats *)
(* equals the number of its seats that are marked available.                *)
C1_VacantSeatsIsCount ==
    \A n \in DOMAIN Sections :
        Sections[n].VacantSeats = Cardinality(AvailableSeats(Sections[n]))

\* a move between two sections has succeeded and a section is partly occupied
C1_Witness ==
    /\ ret.op = "UpdateSeat" /\ ret.err = NoError
    /\ \E n \in DOMAIN Sections :
         /\ Sections[n].VacantSeats > 0
         /\ Sections[n].VacantSeats < Sections[n].MaxSeats

(* C2: under Spec, no two distinct booking records hold the same            *)
(* (section, seat), and the seat of every record exists in the allocator   *)
(* and is marked unavailable.                                               *)
C2_NoDoubleAssignment ==
    /\ \A e1, e2 \in DOMAIN Receipts :
         e1 # e2 => Receipts[e1].Seat # Receipts[e2].Seat
    /\ \A e \in DOMAIN Receipts :
         LET seat == Receipts[e].Seat IN
         /\ seat.Section \in DOMAIN Sections
         /\ seat.SeatNumber \in DOMAIN Sections[seat.Section].Seats
         /\ ~ Sections[seat.Section].Seats[seat.SeatNumber].Available

\* two requesters sit in the same section after one of them moved there
C2_Witness ==
    /\ ret.op = "UpdateUserSeat" /\ ret.code = "OK"
    /\ \E e1, e2 \in DOMAIN Receipts :
         e1 # e2 /\ Receipts[e1].Seat.Section = Receipts[e2].Seat.Section

(* C3: under Spec, the number of occupied seats summed over all sections   *)
(* equals the number of booking records.                                    *)
C3_OccupiedEqualsRecords ==
    TotalOccupied = Cardinality(DOMAIN Receipts)

(* C4: under SpecAlloc, when all N sections have an available seat, N       *)
(* consecutive successful AssignSeat calls use the sections in round-robin  *)
(* order starting at the cursor, each section exactly once; and with the    *)
(* two sections A, B from the initial state, four consecutive assignments   *)
(* yield (A,1), (B,1), (A,2), (B,2).                                        *)
C4_RoundRobinFairness ==
    /\ \A j \in 1..Len(hist) :
         (hist[j].allFree /\ j + NumSections - 1 <= Len(hist)) =>
            /\ \A k \in 0..(NumSections - 1) :
                 hist[j + k].section = SectionAt(hist[j].cursor + k)
            /\ {hist[j + k].section : k \in 0..(NumSections - 1)} = DOMAIN Sections
    /\ ( /\ SectionOrder = <<"A", "B">>
         /\ Len(hist) >= 4
         /\ hist[1].fresh )
       => /\ <<hist[1].section, hist[1].seat>> = <<"A", 1>>
          /\ <<hist[2].section, hist[2].seat>> = <<"B", 1>>
          /\ <<hist[3].section, hist[3].seat>> = <<"A", 2>>
          /\ <<hist[4].section, hist[4].seat>> = <<"B", 2>>

\* three sections were used in a row, starting from a cursor that was not 0,
\* in a state that was not the initial one
C4_Witness ==
    /\ NumSections = 3
    /\ Len(hist) >= 3
    /\ hist[Len(hist) - 2].allFree
    /\ hist[Len(hist) - 2].cursor # 0
    /\ ~ hist[Len(hist) - 2].fresh

(* C5: under SpecAlloc, AssignSeat takes its seat from the first section,   *)
(* in round-robin order from the cursor and wrapping around, that has an    *)
(* available seat; it fails exactly when no section has one.                *)
C5_FirstSectionWithSeat ==
    [][ ret'.op = "AssignSeat" =>
          LET withSeat == {i \in 0..(NumSections - 1) :
                              HasAvailable(Sections[SectionAt(nextSectionIdx + i)])}
          IN  IF withSeat = {}
              THEN ret'.err # NoError
              ELSE /\ ret'.err = NoError
                   /\ ret'.outSection = SectionAt(nextSectionIdx + Min(withSeat))
      ]_vars

\* the section under the cursor was full and the seat came from a later one
C5_Witness ==
    /\ ret.op = "AssignSeat" /\ ret.err = NoError
    /\ hist # << >>
    /\ hist[Len(hist)].section # SectionAt(hist[Len(hist)].cursor)

(* C6: under SpecAlloc, the seat a successful AssignSeat returns is the     *)
(* lowest-numbered available seat of the section it chose; afterwards that  *)
(* seat is unavailable and the section's VacantSeats is one less.           *)
C6_LowestAvailableSeat ==
    [][ (ret'.op = "AssignSeat" /\ ret'.err = NoError) =>
          /\ ret'.outSection \in DOMAIN Sections
          /\ AvailableSeats(Sections[ret'.outSection]) # {}
          /\ ret'.outSeat = Min(AvailableSeats(Sections[ret'.outSection]))
          /\ ~ Sections'[ret'.outSection].Seats[ret'.outSeat].Available
          /\ Sections'[ret'.outSection].VacantSeats =
                Sections[ret'.outSection].VacantSeats - 1
      ]_vars

\* seat 1 was handed out again while a higher seat of the section is occupied
C6_Witness ==
    /\ ret.op = "AssignSeat" /\ ret.err = NoError
    /\ ret.outSeat = 1
    /\ \E k \in DOMAIN Sections[ret.outSection].Seats :
         k > 1 /\ ~ Sections[ret.outSection].Seats[k].Available

(* C7: under SpecAlloc, when every seat of every section is occupied,       *)
(* AssignSeat fails, returning "" and -1, and changes no seat flag, no      *)
(* VacantSeats, no first-vacant hint and not the cursor.                    *)
C7_Exhaustion ==
    [][ (ret'.op = "AssignSeat" /\ ~ AnyAvailable) =>
          /\ ret'.err # NoError
          /\ ret'.outSection = ""
          /\ ret'.outSeat = -1
          /\ AllocatorUnchanged
      ]_vars

\* AssignSeat has failed on a layout that has seats
C7_Witness ==
    /\ ret.op = "AssignSeat" /\ ret.err = "no available seats"
    /\ \E n \in DOMAIN Sections : Sections[n].MaxSeats > 0
    /\ ~ AnyAvailable

(* C8: under SpecAlloc, whenever some seat is marked available, AssignSeat  *)
(* succeeds, and so does PurchaseTicket for every request with a non-empty  *)
(* email, origin and destination and a route with a non-zero price.         *)
C8_AssignmentComplete ==
    /\ [][ (ret'.op = "AssignSeat" /\ AnyAvailable) => ret'.err = NoError ]_vars
    /\ [](AnyAvailable =>
            /\ DoAssignSeat(SM).err = NoError
            /\ \A req \in ValidPurchaseReqs : DoPurchaseTicket(TM, req).code = "OK")

\* the last available seat of the whole layout has just been assigned
C8_Witness ==
    /\ ret.op = "AssignSeat" /\ ret.err = NoError
    /\ ~ AnyAvailable
    /\ NumSections = 3

(* C9: under SpecAlloc, a successful AssignSeat leaves the cursor on the    *)
(* position right after the section that yielded the seat (modulo the       *)
(* number of sections), however many full sections were skipped; a failed   *)
(* AssignSeat leaves the cursor unchanged.                                  *)
C9_CursorRule ==
    [][ ret'.op = "AssignSeat" =>
          IF ret'.err = NoError
          THEN \E idx \in 0..(NumSections - 1) :
                  /\ SectionOrder[idx + 1] = ret'.outSection
                  /\ nextSectionIdx' = (idx + 1) % NumSections
          ELSE nextSectionIdx' = nextSectionIdx
      ]_vars

\* two full sections were skipped and the cursor is right after the third
C9_Witness ==
    /\ ret.op = "AssignSeat" /\ ret.err = NoError
    /\ NumSections = 3
    /\ hist # << >>
    /\ hist[Len(hist)].section = SectionAt(hist[Len(hist)].cursor + 2)
    /\ SectionAt(nextSectionIdx + 2) = ret.outSection

(* C10: under SpecAlloc, ReleaseSeat fails if the section does not exist,   *)
(* if the seat number does not exist in it, or if the seat is already       *)
(* available, and then no seat flag, VacantSeats, first-vacant hint or      *)
(* cursor changes.                                                          *)
C10_ReleaseRejected ==
    [][ \A s \in SectionArgs, n \in SeatArgs :
          ( /\ ReleaseSeat(s, n)
            /\ \/ s \notin DOMAIN Sections
               \/ n \notin DOMAIN Sections[s].Seats
               \/ Sections[s].Seats[n].Available )
          => /\ ret'.err # NoError
             /\ AllocatorUnchanged
      ]_vars

\* a release of a seat that was already available has been rejected
C10_Witness ==
    /\ ret.op = "ReleaseSeat"
    /\ ret.err = "seat is already available in section"

-----------------------------------------------------------------------------
(* C11: under SpecAlloc, a ReleaseSeat(section, seatNumber) that succeeds on  *)
(* an occupied seat marks exactly that seat available, adds exactly one to    *)
(* that section's VacantSeats, and sets FirstVacant to seatNumber if and only *)
(* if seatNumber is below the hint; nothing else of the allocator changes.    *)
C11_ReleaseEffect ==
    [][ (ret'.op = "ReleaseSeat") =>
        \A s \in SectionArgs, n \in SeatArgs :
          ( /\ ReleaseSeat(s, n)
            /\ s \in DOMAIN Sections
            /\ n \in DOMAIN Sections[s].Seats
            /\ ~ Sections[s].Seats[n].Available )
          => /\ ret'.err = NoError
             /\ Sections'[s].Seats[n].Available
             /\ \A m \in DOMAIN Sections : \A k \in DOMAIN Sections[m].Seats :
                  <<m, k>> # <<s, n>> => Sections'[m].Seats[k] = Sections[m].Seats[k]
             /\ Sections'[s].VacantSeats = Sections[s].VacantSeats + 1
             /\ Sections'[s].FirstVacant =
                  IF n < Sections[s].FirstVacant THEN n ELSE Sections[s].FirstVacant
             /\ \A m \in DOMAIN Sections \ {s} : Sections'[m] = Sections[m]
             /\ UNCHANGED <<SectionOrder, nextSectionIdx>>
      ]_vars

\* a release has succeeded that left the hint where it was: the hint is on an
\* available seat below another available seat, and a seat is still occupied
C11_Witness ==
    /\ ret.op = "ReleaseSeat" /\ ret.err = NoError
    /\ \E n \in DOMAIN Sections :
         /\ Sections[n].FirstVacant = 1
         /\ {1, 2} \subseteq AvailableSeats(Sections[n])
         /\ nextSectionIdx = 0
         /\ TotalOccupied > 0

C13_MoveEffect ==
    [][ (ret'.op = "UpdateSeat" /\ ret'.err = NoError) =>
        \A cs \in SectionArgs, rs \in SectionArgs,
           cn \in NonZeroSeatArgs, rn \in NonZeroSeatArgs :
          UpdateSeat(cn, cs, rn, rs)
          => /\ ~ Sections[cs].Seats[cn].Available
             /\ Sections[rs].Seats[rn].Available
             /\ Sections'[cs].Seats[cn].Available
             /\ ~ Sections'[rs].Seats[rn].Available
             /\ \A m \in DOMAIN Sections : \A k \in DOMAIN Sections[m].Seats :
                  (<<m, k>> # <<cs, cn>> /\ <<m, k>> # <<rs, rn>>)
                  => Sections'[m].Seats[k] = Sections[m].Seats[k]
             /\ \A m \in DOMAIN Sections :
                  Sections'[m].VacantSeats =
                      Sections[m].VacantSeats + (IF m = cs THEN 1 ELSE 0)
                                              - (IF m = rs THEN 1 ELSE 0)
             /\ UNCHANGED <<SectionOrder, nextSectionIdx>>
      ]_vars

\* the only occupied seat was assigned in the first section (the cursor is
\* at 1) and a successful move has taken it to another section
C13_Witness ==
    /\ ret.op = "UpdateSeat" /\ ret.err = NoError
    /\ NumSections >= 2
    /\ nextSectionIdx = 1
    /\ AllAvailable(Sections[SectionOrder[1]])
    /\ TotalOccupied = 1

\* the six cases of C14 for a call UpdateSeat(currSeat, currSection, reqSeat, reqSection)
C14_Rejected(currSeat, currSection, reqSeat, reqSection) ==
    \/ currSection \notin DOMAIN Sections
    \/ reqSection \notin DOMAIN Sections
    \/ currSeat \notin DOMAIN Sections[currSection].Seats
    \/ Sections[currSection].Seats[currSeat].Available
    \/ reqSeat \notin DOMAIN Sections[reqSection].Seats
    \/ ~ Sections[reqSection].Seats[reqSeat].Available

(* C14: under SpecAlloc, UpdateSeat returns an error and changes nothing of   *)
(* the allocator when the current section is missing, the requested section   *)
(* is missing, the current seat number is missing, the current seat is        *)
(* available, the requested seat number is missing, or the requested seat is  *)
(* occupied.                                                                  *)
C14_MoveRejected ==
    /\ [](\A cs \in SectionArgs, rs \in SectionArgs, cn \in SeatArgs, rn \in SeatArgs :
            C14_Rejected(cn, cs, rn, rs)
            => LET u == DoUpdateSeat(SM, cn, cs, rn, rs) IN
               u.err # NoError /\ u.sm = SM)
    /\ [][ (ret'.op = "UpdateSeat" /\ ret'.err # NoError) => AllocatorUnchanged ]_vars

\* a move into an occupied seat has been rejected
C14_Witness ==
    /\ ret.op = "UpdateSeat"
    /\ ret.err = "requested seat is not available"
    /\ TotalOccupied >= 2

\* the requests C15 is about: the requester's identity, the origin or the
\* destination is empty or absent, or the route has no price or a price of zero
C15_Invalid(req) ==
    /\ ~ req.nil
    /\ \/ ~ req.userPresent
       \/ req.email = ""
       \/ req.from = ""
       \/ req.to = ""
       \/ ConnectionKey(req.from, req.to) \notin DOMAIN StationConnection
       \/ StationConnection[ConnectionKey(req.from, req.to)] = 0

(* C15: under Spec, a PurchaseTicket whose requester, origin or destination   *)
(* is empty or absent, or whose route has no price or a price of zero, fails  *)
(* with InvalidArgument without calling AssignSeat: no seat is taken, the     *)
(* cursor does not move and no record is created or changed.                  *)
C15_PurchaseInvalid ==
    /\ [](\A req \in PurchaseReqs :
            C15_Invalid(req)
            => LET p == DoPurchaseTicket(TM, req) IN
               /\ p.code = "InvalidArgument"
               /\ ~ p.assignCalled
               /\ p.tm = TM)
    /\ [][ (ret'.op = "PurchaseTicket" /\ ret'.code = "InvalidArgument")
           => /\ ~ ret'.assignCalled
              /\ UNCHANGED <<Sections, SectionOrder, nextSectionIdx, Receipts>> ]_vars

\* a purchase on a route without a price has been refused while seats were
\* available and a record existed
C15_Witness ==
    /\ ret.op = "PurchaseTicket"
    /\ ret.code = "InvalidArgument" /\ ret.err = "invalid station"
    /\ AnyAvailable
    /\ DOMAIN Receipts # {}

(* C16: under Spec, when no seat of any section is available, a valid         *)
(* PurchaseTicket fails with NotFound and changes neither the records (the    *)
(* requester's own earlier record included) nor the allocator.                *)
C16_PurchaseExhausted ==
    [][ (ret'.op = "PurchaseTicket" /\ ~ AnyAvailable) =>
        \A req \in ValidPurchaseReqs :
          PurchaseTicket(req)
          => /\ ret'.code = "NotFound"
             /\ UNCHANGED <<Sections, SectionOrder, nextSectionIdx, Receipts>>
      ]_vars

\* a purchase has failed for want of a seat, every requester holding a record
C16_Witness ==
    /\ ret.op = "PurchaseTicket"
    /\ ret.code = "NotFound" /\ ret.err = "failed to assign seat"
    /\ NumSections > 0
    /\ DOMAIN Receipts = UserEmails

(* C17: under Spec, a successful PurchaseTicket stores under the requester's  *)
(* email a record of the requester, the origin, the destination, the price of *)
(* the route table and the (section, seat) AssignSeat returned, leaving the   *)
(* other records alone; a record the requester already had is replaced and    *)
(* its seat, another one, stays occupied.                                     *)
C17_PurchaseStores ==
    [][ (ret'.op = "PurchaseTicket" /\ ret'.code = "OK") =>
        \A req \in PurchaseReqs :
          PurchaseTicket(req)
          => LET a == DoAssignSeat(SM)
                 receipt == [ User      |-> req.email,
                              From      |-> req.from,
                              To        |-> req.to,
                              PricePaid |-> StationConnection[ConnectionKey(req.from, req.to)],
                              Seat      |-> Seat(a.section, a.seat) ]
             IN /\ a.err = NoError
                /\ ret'.outSection = a.section /\ ret'.outSeat = a.seat
                /\ ret'.receipt = <<receipt>>
                /\ DOMAIN Receipts' = DOMAIN Receipts \cup {req.email}
                /\ Receipts'[req.email] = receipt
                /\ \A e \in DOMAIN Receipts \ {req.email} : Receipts'[e] = Receipts[e]
                /\ req.email \in DOMAIN Receipts
                   => LET old == Receipts[req.email].Seat IN
                      /\ old # receipt.Seat
                      /\ ~ Sections'[old.Section].Seats[old.SeatNumber].Available
      ]_vars

\* two purchases in a row on a fresh allocator have left one record: the
\* second replaced the record of the first
C17_Witness ==
    /\ ret.op = "PurchaseTicket" /\ ret.code = "OK"
    /\ Len(hist) = 2 /\ hist[1].fresh
    /\ Cardinality(DOMAIN Receipts) = 1
    /\ TotalOccupied = 2

\* seat k of section n is occupied and no record of receipts holds it
C18_Leaked(sections, receipts, n, k) ==
    /\ ~ sections[n].Seats[k].Available
    /\ \A e \in DOMAIN receipts : receipts[e].Seat # Seat(n, k)

(* C18: under Spec, the seat of a record that a successful PurchaseTicket of  *)
(* its holder has replaced is occupied and held by no record, and a seat that *)
(* is occupied and held by no record is so after every orchestrator call.     *)
C18_LeakPermanent ==
    [][ /\ \A n \in DOMAIN Sections : \A k \in DOMAIN Sections[n].Seats :
             C18_Leaked(Sections, Receipts, n, k) => C18_Leaked(Sections', Receipts', n, k)
        /\ (ret'.op = "PurchaseTicket" /\ ret'.code = "OK")
           => LET e == ret'.receipt[1].User IN
              e \in DOMAIN Receipts
              => C18_Leaked(Sections', Receipts',
                            Receipts[e].Seat.Section, Receipts[e].Seat.SeatNumber)
      ]_vars

\* every requester has cancelled and a seat is still occupied
C18_Witness ==
    /\ ret.op = "RemoveUser" /\ ret.code = "OK"
    /\ DOMAIN Receipts = {}
    /\ TotalOccupied > 0

\* valid purchases made one after another from tm reach one that is assigned seat
RECURSIVE C19_CanBeAssigned(_, _)
C19_CanBeAssigned(tm, seat) ==
    LET p == DoPurchaseTicket(tm, PurchaseReq(TRUE, "u1", "London", "France")) IN
    IF p.code # "OK" THEN FALSE
    ELSE IF p.receipt[1].Seat = seat THEN TRUE
    ELSE C19_CanBeAssigned(p.tm, seat)

C20_TargetFree(req) ==
    /\ req.section \in DOMAIN Sections
    /\ req.seatNumber \in DOMAIN Sections[req.section].Seats
    /\ Sections[req.section].Seats[req.seatNumber].Available

(* C20: under Spec, a well-formed UpdateUserSeat of a requester who has a     *)
(* record succeeds exactly when the requested seat exists and is available.   *)
(* On success the record's seat is the requested one, the rest of the record  *)
(* and the other records are as before, the seat the record had is available  *)
(* and the requested seat occupied. Otherwise the call answers NotFound and   *)
(* records and allocator are unchanged.                                       *)
C20_UpdateUserSeat ==
    /\ [](\A req \in UpdateReqs :
            ( /\ ~ req.nil /\ req.email # "" /\ req.newSeatPresent
              /\ req.section # "" /\ req.seatNumber # 0
              /\ req.email \in DOMAIN Receipts )
            => LET u == DoUpdateUserSeat(TM, req) IN
               IF C20_TargetFree(req)
               THEN /\ u.code = "OK"
                    /\ u.receipt = << [Receipts[req.email] EXCEPT
                                          !.Seat = Seat(req.section, req.seatNumber)] >>
               ELSE /\ u.code = "NotFound"
                    /\ u.tm = TM)
    /\ [][ (ret'.op = "UpdateUserSeat" /\ ret'.code = "NotFound")
           => UNCHANGED <<Sections, SectionOrder, nextSectionIdx, Receipts>> ]_vars
    /\ [][ (ret'.op = "UpdateUserSeat" /\ ret'.code = "OK")
           => LET r == ret'.receipt[1]
                  old == Receipts[r.User].Seat
              IN /\ Receipts' = [Receipts EXCEPT ![r.User].Seat = r.Seat]
                 /\ ~ Sections[old.Section].Seats[old.SeatNumber].Available
                 /\ Sections[r.Seat.Section].Seats[r.Seat.SeatNumber].Available
                 /\ Sections'[old.Section].Seats[old.SeatNumber].Available
                 /\ ~ Sections'[r.Seat.Section].Seats[r.Seat.SeatNumber].Available ]_vars

\* a requester has moved to section B while the other requester's record is
\* in section A, and no other seat is occupied
C20_Witness ==
    /\ ret.op = "UpdateUserSeat" /\ ret.code = "OK"
    /\ ret.receipt[1].Seat.Section = "B"
    /\ DOMAIN Receipts = UserEmails
    /\ \E e \in UserEmails : Receipts[e].Seat.Section = "A"
    /\ TotalOccupied = 2

\* the entries GetUsersBySection is to return for a section: one for each
\* current record whose seat is in the section, with the record's seat number
C21_Expected(section) ==
    { [User |-> Receipts[e].User, AllottedSeat |-> Receipts[e].Seat.SeatNumber] :
        e \in {x \in DOMAIN Receipts : Receipts[x].Seat.Section = section} }

(* C21: under Spec, GetUsersBySection answers InvalidArgument for an empty    *)
(* section and NotFound for a section the allocator does not have; otherwise  *)
(* every list it can return holds exactly one entry for each current record   *)
(* of that section, with the record's seat number, and any of the entries can *)
(* come first. The call changes nothing.                                      *)
C21_UsersBySection ==
    /\ [](\A req \in SectionReqs :
            ~ req.nil
            => LET g == DoGetUsersBySection(TM, req) IN
               /\ g.tm = TM
               /\ IF req.section = "" THEN g.code = "InvalidArgument"
                  ELSE IF req.section \notin DOMAIN Sections THEN g.code = "NotFound"
                  ELSE /\ g.code = "OK"
                       /\ \A users \in g.users :
                            /\ {users[i] : i \in 1..Len(users)} = C21_Expected(req.section)
                            /\ Len(users) = Cardinality(C21_Expected(req.section))
                       /\ \A x \in C21_Expected(req.section) :
                            \E users \in g.users : users[1] = x)
    /\ [][ (ret'.op = "GetUsersBySection")
           => /\ UNCHANGED <<Sections, SectionOrder, nextSectionIdx, Receipts>>
              /\ ret'.code = "OK"
                 => \E n \in DOMAIN Sections :
                      /\ {ret'.users[i] : i \in 1..Len(ret'.users)} = C21_Expected(n)
                      /\ Len(ret'.users) = Cardinality(C21_Expected(n)) ]_vars

\* two records of one section were returned, the requester with the higher
\* seat number first, while a seat of another section is occupied
C21_Witness ==
    /\ ret.op = "GetUsersBySection" /\ ret.code = "OK"
    /\ Len(ret.users) = 2
    /\ ret.users[1].AllottedSeat > ret.users[2].AllottedSeat
    /\ TotalOccupied = 3

(* C22: under Spec, GetReceipt answers InvalidArgument for an empty email and *)
(* NotFound for an email without a record, and otherwise returns the record   *)
(* stored under the email; that record is the one the requester's last        *)
(* successful PurchaseTicket or UpdateUserSeat returned, since no other call  *)
(* changes a record that is kept.                                             *)
C22_GetReceipt ==
    /\ [](\A req \in EmailReqs :
            ~ req.nil
            => LET g == DoGetReceipt(TM, req) IN
               /\ g.tm = TM
               /\ IF req.email = "" THEN g.code = "InvalidArgument"
                  ELSE IF req.email \notin DOMAIN Receipts THEN g.code = "NotFound"
                  ELSE g.code = "OK" /\ g.receipt = <<Receipts[req.email]>>)
    /\ [][ IF ret'.op \in {"PurchaseTicket", "UpdateUserSeat"} /\ ret'.code = "OK"
           THEN LET r == ret'.receipt[1] IN
                /\ r.User \in DOMAIN Receipts' /\ Receipts'[r.User] = r
                /\ \A e \in DOMAIN Receipts' \ {r.User} :
                     e \in DOMAIN Receipts /\ Receipts'[e] = Receipts[e]
           ELSE \A e \in DOMAIN Receipts' :
                     e \in DOMAIN Receipts /\ Receipts'[e] = Receipts[e] ]_vars
    /\ [][ (ret'.op = "GetReceipt" /\ ret'.code = "OK")
           => /\ Len(ret'.receipt) = 1
              /\ ret'.receipt[1] = Receipts[ret'.receipt[1].User] ]_vars

\* the record returned has a seat of the second section while the cursor is at
\* the second section and one seat is occupied: the requester has moved there
C22_Witness ==
    /\ ret.op = "GetReceipt" /\ ret.code = "OK"
    /\ NumSections >= 2
    /\ nextSectionIdx = 1
    /\ ret.receipt[1].Seat.Section = SectionOrder[2]
    /\ TotalOccupied = 1

(* C23: under Spec, every call that answers InvalidArgument or NotFound       *)
(* leaves the records, the seats, the vacancy counts, the first-vacant hints, *)
(* the order and the cursor as they were.                                     *)
C23_NoPartialMutation ==
    [][ (ret'.code \in {"InvalidArgument", "NotFound"})
        => UNCHANGED <<Sections, SectionOrder, nextSectionIdx, Receipts>> ]_vars

\* a move has been refused while both requesters hold a record and a seat
\* is still available
C23_Witness ==
    /\ ret.op = "UpdateUserSeat"
    /\ ret.code = "NotFound" /\ ret.err = "failed to update seat"
    /\ DOMAIN Receipts = UserEmails
    /\ AnyAvailable

\* section lists given to NewSeatManager: those of Init, one with a name
\* listed twice and one with a section of no seats
C27_Layouts ==
    SectionLayouts
    \cup { << SectionConfig("A", 1), SectionConfig("B", 1), SectionConfig("A", MaxSeats) >>,
           << SectionConfig("A", 0), SectionConfig("B", MaxSeats) >> }

(* C27: under SpecAlloc, the allocator NewSeatManager builds has, for every   *)
(* section, the seats 1..MaxSeats all available, VacantSeats = MaxSeats and   *)
(* FirstVacant = 1, the cursor at 0 and SectionOrder equal to the list of     *)
(* configured names; the first state of every run is such an allocator.       *)
C27_Construction ==
    /\ \A sections \in C27_Layouts :
         LET sm == NewSeatManager(sections) IN
         /\ sm.nextSectionIdx = 0
         /\ sm.SectionOrder = [i \in 1..Len(sections) |-> sections[i].Name]
         /\ DOMAIN sm.Sections = {sections[i].Name : i \in 1..Len(sections)}
         /\ \A n \in DOMAIN sm.Sections :
              /\ sm.Sections[n].Name = n
              /\ \E i \in 1..Len(sections) :
                   sections[i].Name = n /\ sm.Sections[n].MaxSeats = sections[i].MaxSeats
              /\ DOMAIN sm.Sections[n].Seats = 1..sm.Sections[n].MaxSeats
              /\ \A k \in DOMAIN sm.Sections[n].Seats :
                   sm.Sections[n].Seats[k] = [Number |-> k, Available |-> TRUE]
              /\ sm.Sections[n].VacantSeats = sm.Sections[n].MaxSeats
              /\ sm.Sections[n].FirstVacant = 1
    /\ ret.op = "init"
       => /\ \E sections \in SectionLayouts : SM = NewSeatManager(sections)
          /\ Fresh

\* the state construction leaves for the layout of three sections
C27_Witness ==
    /\ ret.op = "init"
    /\ SectionOrder = <<"A", "B", "C">>
    /\ Sections["B"].VacantSeats = MaxSeats

(* C28: under SpecAlloc, in every reachable state no available seat of a      *)
(* section has a number below the section's FirstVacant.                      *)
C28_HintNeverOvershoots ==
    \A n \in DOMAIN Sections :
        \A k \in AvailableSeats(Sections[n]) : Sections[n].FirstVacant <= k

\* the one occupied seat was assigned in the first section and has been
\* moved to seat 1 of another section, where the hint pointed: the hint of
\* that section has moved on to 2
C28_Witness ==
    /\ ret.op = "UpdateSeat" /\ ret.err = NoError
    /\ nextSectionIdx = 1
    /\ TotalOccupied = 1
    /\ \E n \in DOMAIN Sections :
         /\ n # SectionOrder[1]
         /\ Sections[n].MaxSeats >= 2
         /\ ~ Sections[n].Seats[1].Available
         /\ Sections[n].FirstVacant = 2

(* C29: under SpecAlloc, in every reachable state a section with              *)
(* VacantSeats > 0 has an available seat at or after its FirstVacant, so the  *)
(* scan of AssignSeat finds one, and no AssignSeat has reset a VacantSeats.   *)
C29_RepairUnreachable ==
    /\ \A n \in DOMAIN Sections :
         Sections[n].VacantSeats > 0
         => FindAvailable(Sections[n], Sections[n].FirstVacant) <= Sections[n].MaxSeats
    /\ ~ ret.repaired

\* AssignSeat has scanned a section from its hint and taken its last seat,
\* seat 2, without a repair, and another section still has a vacant seat
C29_Witness ==
    /\ ret.op = "AssignSeat" /\ ret.err = NoError /\ ~ ret.repaired
    /\ ret.outSeat = 2
    /\ Sections[ret.outSection].VacantSeats = 0
    /\ \E n \in DOMAIN Sections : Sections[n].VacantSeats > 0

(* C30: under SpecAlloc, no step changes the set of sections, a section's     *)
(* Name or MaxSeats, the seat numbers of a section, or SectionOrder.          *)
C30_Frame ==
    [][ /\ DOMAIN Sections' = DOMAIN Sections
        /\ SectionOrder' = SectionOrder
        /\ \A n \in DOMAIN Sections :
             /\ Sections'[n].Name = Sections[n].Name
             /\ Sections'[n].MaxSeats = Sections[n].MaxSeats
             /\ DOMAIN Sections'[n].Seats = DOMAIN Sections[n].Seats
             /\ \A k \in DOMAIN Sections[n].Seats :
                  Sections'[n].Seats[k].Number = Sections[n].Seats[k].Number
      ]_vars

\* a release has succeeded in the layout of three sections, two seats are
\* occupied, and every section still has its seats numbered 1..MaxSeats
C30_Witness ==
    /\ ret.op = "ReleaseSeat" /\ ret.err = NoError
    /\ SectionOrder = <<"A", "B", "C">>
    /\ TotalOccupied = 2
    /\ \A n \in DOMAIN Sections :
         /\ DOMAIN Sections[n].Seats = 1..Sections[n].MaxSeats
         /\ \A k \in DOMAIN Sections[n].Seats : Sections[n].Seats[k].Number = k

\* handler h is between tm.mu.Lock() and the deferred tm.mu.Unlock()
InTM(h) == pc[h] \in {"check", "smLock", "alloc", "smUnlock", "finish", "tmUnlock"}

\* handler h is between sm.mu.Lock() and the deferred sm.mu.Unlock()
InSM(h) == pc[h] \in {"alloc", "smUnlock"}

(* C24: under SpecConc, at most one handler is inside an orchestrator RPC's   *)
(* critical section, at most one is inside an allocator method's critical     *)
(* section, and an RPC has made at most one allocator call.                   *)
C24_MutualExclusion ==
    /\ Cardinality({h \in Handlers : InTM(h)}) <= 1
    /\ Cardinality({h \in Handlers : InSM(h)}) <= 1
    /\ \A h \in Handlers : call[h].allocCalls <= 1

\* a handler has made its allocator call and still holds sm.mu while
\* another handler waits for tm.mu
C24_Witness ==
    \E h \in Handlers, g \in Handlers :
        /\ pc[h] = "smUnlock" /\ call[h].allocCalls = 1
        /\ smMu = h /\ tmMu = h
        /\ pc[g] = "tmLock"

(* C25: under SpecConcFair, a handler holds sm.mu only while it holds tm.mu   *)
(* and never waits for tm.mu holding sm.mu, a handler holds tm.mu exactly     *)
(* from Lock to the deferred Unlock and sm.mu likewise, so an idle handler    *)
(* holds neither whatever its RPC returned, and every handler is idle again   *)
(* and again: an RPC that has started completes.                              *)
C25_Progress ==
    /\ [](\A h \in Handlers :
            /\ smMu = h => tmMu = h
            /\ tmMu = h <=> InTM(h)
            /\ smMu = h <=> InSM(h))
    /\ \A h \in Handlers : []<>(pc[h] = "idle")

\* an RPC that has failed with NotFound is about to return, holding tm.mu,
\* while another handler waits for tm.mu
C25_Witness ==
    \E h \in Handlers, g \in Handlers :
        /\ pc[h] = "tmUnlock" /\ call[h].resp.code = "NotFound"
        /\ tmMu = h /\ smMu = NoHolder
        /\ pc[g] = "tmLock"

(* C26: under SpecConc, the response of every RPC is the response it has in   *)
(* the run of the same RPCs one at a time in the order in which the handlers  *)
(* acquired tm.mu, the records and the allocator are those of that run        *)
(* whenever no handler is inside an RPC, and no two records have the same     *)
(* (section, seat).                                                           *)
C26_Serializable ==
    /\ \A h \in Handlers : pc[h] = "tmUnlock" => call[h].resp = call[h].expect
    /\ (\A h \in Handlers : ~ InTM(h)) => TM = serial
    /\ \A e1 \in DOMAIN Receipts, e2 \in DOMAIN Receipts :
         e1 # e2 => Receipts[e1].Seat # Receipts[e2].Seat

\* the purchase of u2 returns its seat while u1 holds a record of another
\* seat and the handler of another purchase waits for tm.mu
C26_Witness ==
    \E h \in Handlers, g \in Handlers :
        /\ pc[h] = "tmUnlock" /\ call[h].rpc = "PurchaseTicket"
        /\ call[h].resp.code = "OK" /\ call[h].resp.receipt[1].User = "u2"
        /\ "u1" \in DOMAIN Receipts
        /\ pc[g] = "tmLock" /\ call[g].rpc = "PurchaseTicket"

-----------------------------------------------------------------------------
\* the UpdateUserSeat requests C31 is about: the email is empty, NewSeat is
\* absent, its section is empty or its seat number is 0
C31_Malformed(req) ==
    /\ ~ req.nil
    /\ \/ req.email = ""
       \/ ~ req.newSeatPresent
       \/ req.section = ""
       \/ req.seatNumber = 0

(* C31: under Spec, in every reachable state InvalidArgument comes before     *)
(* NotFound: UpdateUserSeat with an empty email, without NewSeat, with an     *)
(* empty section or with seat number 0 answers InvalidArgument whether the    *)
(* requester has a record or not, RemoveUser and GetReceipt with an empty     *)
(* email answer InvalidArgument, and so do GetUsersBySection with an empty    *)
(* section and a PurchaseTicket with a field missing when no seat is left.    *)
C31_InvalidBeforeNotFound ==
    /\ \A req \in UpdateReqs :
         C31_Malformed(req) => DoUpdateUserSeat(TM, req).code = "InvalidArgument"
    /\ \A req \in EmailReqs :
         (~ req.nil /\ req.email = "")
         => /\ DoRemoveUser(TM, req).code = "InvalidArgument"
            /\ DoGetReceipt(TM, req).code = "InvalidArgument"
    /\ \A req \in SectionReqs :
         (~ req.nil /\ req.section = "")
         => DoGetUsersBySection(TM, req).code = "InvalidArgument"
    /\ \A req \in PurchaseReqs :
         (~ req.nil /\ (~ req.userPresent \/ req.email = "" \/ req.from = "" \/ req.to = ""))
         => DoPurchaseTicket(TM, req).code = "InvalidArgument"

\* UpdateUserSeat has answered "missing required fields" while no requester
\* has a record, after a purchase and its cancellation (the cursor has moved)
C31_Witness ==
    /\ ret.op = "UpdateUserSeat"
    /\ ret.code = "InvalidArgument" /\ ret.err = "missing required fields"
    /\ Receipts = << >>
    /\ NumSections >= 2
    /\ nextSectionIdx = 1
    /\ TotalOccupied = 0

\* how many seats of the section are marked unavailable
C32_Occupied(section) == Cardinality(OccupiedSeats(section))

(* C32: under SpecGrow (from construction, only AssignSeat and PurchaseTicket *)
(* are called), in every reachable state any two sections that still have an *)
(* available seat differ by at most one in their number of occupied seats.   *)
C32_Balanced ==
    \A m \in DOMAIN Sections : \A n \in DOMAIN Sections :
        (HasAvailable(Sections[m]) /\ HasAvailable(Sections[n]))
        => C32_Occupied(Sections[m]) - C32_Occupied(Sections[n]) <= 1

\* a seat has just been handed out, and of two sections that are not full one
\* has two occupied seats and the other one
C32_Witness ==
    /\ ret.assignCalled /\ ret.err = NoError
    /\ \E m \in DOMAIN Sections : \E n \in DOMAIN Sections :
         /\ HasAvailable(Sections[m]) /\ HasAvailable(Sections[n])
         /\ C32_Occupied(Sections[m]) = 2
         /\ C32_Occupied(Sections[n]) = 1

(* C33: under SpecAlloc, in every reachable state each section's FirstVacant  *)
(* is the lowest seat number marked available in the section, or MaxSeats + 1 *)
(* when the section has no available seat.                                    *)
C33_HintExact ==
    \A n \in DOMAIN Sections :
        Sections[n].FirstVacant =
            IF AvailableSeats(Sections[n]) = {}
            THEN Sections[n].MaxSeats + 1
            ELSE Min(AvailableSeats(Sections[n]))

\* a move within a section into the seat under the hint has succeeded: the
\* hint is now on the seat moved out of, which is not seat 1, and another
\* section is full with its hint past its last seat
C33_Witness ==
    /\ ret.op = "UpdateSeat" /\ ret.err = NoError
    /\ \E n \in DOMAIN Sections :
         /\ Sections[n].FirstVacant = 2
         /\ Sections[n].VacantSeats = 1
         /\ Sections[n].MaxSeats = 2
    /\ \E m \in DOMAIN Sections :
         /\ Sections[m].MaxSeats > 0
         /\ Sections[m].FirstVacant = Sections[m].MaxSeats + 1

\* the occupied seats that outnumber the records
C34_Surplus == TotalOccupied - Cardinality(DOMAIN Receipts)

\* the records that hold seat k of section n
C34_Holders(n, k) == {e \in DOMAIN Receipts : Receipts[e].Seat = Seat(n, k)}

(* C34: under Spec, occupied seats and records are equal in number at         *)
(* construction, and a call adds one to the number of occupied seats minus    *)
(* the number of records exactly when it is a successful PurchaseTicket of a  *)
(* requester that already had a record, and changes it otherwise not at all:  *)
(* the difference is the number of such purchases so far. In every state no   *)
(* occupied seat is held by two records, and while the difference is 0 (no    *)
(* such purchase has happened) every occupied seat is held by exactly one.    *)
C34_LeakAccounting ==
    /\ C34_Surplus = 0
    /\ [][ LET again == /\ ret'.op = "PurchaseTicket" /\ ret'.code = "OK"
                         /\ ret'.receipt[1].User \in DOMAIN Receipts
           IN  IF UNCHANGED <<Sections, Receipts>>
               THEN ~ again
               ELSE C34_Surplus' - C34_Surplus = IF again THEN 1 ELSE 0 ]_vars
    /\ [](\A n \in DOMAIN Sections : \A k \in OccupiedSeats(Sections[n]) :
            /\ Cardinality(C34_Holders(n, k)) <= 1
            /\ C34_Surplus = 0 => Cardinality(C34_Holders(n, k)) = 1)

\* both requesters have purchased twice: two records, four occupied seats
C34_Witness ==
    /\ ret.op = "PurchaseTicket" /\ ret.code = "OK"
    /\ Cardinality(DOMAIN Receipts) = 2
    /\ C34_Surplus = 2

\* the errors of UpdateSeat that are about the requested section and seat
C35_RequestedErrors ==
    { "requested section does not exist",
      "requested seat does not exist in section",
      "requested seat is not available" }

(* C35: under Spec, in every reachable state and for every record, ReleaseSeat *)
(* of the record's seat would succeed, and UpdateSeat from the record's seat   *)
(* to any requested section and seat succeeds or fails with an error about     *)
(* the requested section or seat; and the last call has not answered "failed  *)
(* to release seat".                                                           *)
C35_OwnSeatSound ==
    /\ \A e \in DOMAIN Receipts :
         LET seat == Receipts[e].Seat IN
         /\ ReleaseSeatError(SM, seat.Section, seat.SeatNumber) = NoError
         /\ DoRemoveUser(TM, EmailReq(e)).code = "OK"
         /\ \A rs \in SectionArgs : \A rn \in NonZeroSeatArgs :
              UpdateSeatError(SM, seat.SeatNumber, seat.Section, rn, rs)
                  \in {NoError} \cup C35_RequestedErrors
    /\ ret.err # "failed to release seat"

\* a requester that purchased twice has been removed: the seat of its record
\* was released and the seat of its first purchase is still occupied
C35_Witness ==
    /\ ret.op = "RemoveUser" /\ ret.code = "OK"
    /\ Receipts = << >>
    /\ TotalOccupied = 1

\* tm, the orchestrator after a call for requester x, has every record but
\* that of x as it is now, and the seat of every such record occupied
C36_OthersKept(tm, x) ==
    \A y \in DOMAIN Receipts \ {x} :
        /\ y \in DOMAIN tm.Receipts
        /\ tm.Receipts[y] = Receipts[y]
        /\ ~ tm.sm.Sections[Receipts[y].Seat.Section].Seats[Receipts[y].Seat.SeatNumber].Available

(* C36: under Spec, in every reachable state a PurchaseTicket, UpdateUserSeat, *)
(* RemoveUser or GetReceipt call for one requester, whether it succeeds or     *)
(* fails, leaves the record of every other requester unchanged and that        *)
(* record's seat occupied.                                                     *)
C36_Isolation ==
    /\ \A req \in PurchaseReqs :
         C36_OthersKept(DoPurchaseTicket(TM, req).tm, req.email)
    /\ \A req \in UpdateReqs :
         C36_OthersKept(DoUpdateUserSeat(TM, req).tm, req.email)
    /\ \A req \in EmailReqs :
         /\ C36_OthersKept(DoRemoveUser(TM, req).tm, req.email)
         /\ C36_OthersKept(DoGetReceipt(TM, req).tm, req.email)

\* u1 has been removed while u2 holds a record, whose seat is the only one
\* occupied
C36_Witness ==
    /\ ret.op = "RemoveUser" /\ ret.code = "OK"
    /\ ret.removedUser = "u1"
    /\ DOMAIN Receipts = {"u2"}
    /\ TotalOccupied = 1

(* C37: under Spec, in every reachable state ReleaseSeat and UpdateSeat, with  *)
(* whatever arguments, leave the cursor (and the order) as it is, ReleaseSeat  *)
(* leaves every section but the named one as it is, and GetReceipt and         *)
(* GetUsersBySection leave the records and the allocator as they are; and the  *)
(* RPCs that call ReleaseSeat and UpdateSeat do not move the cursor while the  *)
(* two queries change nothing.                                                 *)
C37_Frame ==
    /\ [](/\ \A s \in SectionArgs : \A n \in SeatArgs :
               LET r == DoReleaseSeat(SM, s, n) IN
               /\ r.sm.nextSectionIdx = nextSectionIdx
               /\ r.sm.SectionOrder = SectionOrder
               /\ DOMAIN r.sm.Sections = DOMAIN Sections
               /\ \A m \in DOMAIN Sections \ {s} : r.sm.Sections[m] = Sections[m]
          /\ \A cs \in SectionArgs : \A cn \in SeatArgs :
             \A rs \in SectionArgs : \A rn \in SeatArgs :
               LET u == DoUpdateSeat(SM, cn, cs, rn, rs) IN
               /\ u.sm.nextSectionIdx = nextSectionIdx
               /\ u.sm.SectionOrder = SectionOrder
          /\ \A req \in EmailReqs : DoGetReceipt(TM, req).tm = TM
          /\ \A req \in SectionReqs : DoGetUsersBySection(TM, req).tm = TM)
    /\ [][ /\ ret'.op \in {"RemoveUser", "UpdateUserSeat"}
               => UNCHANGED <<SectionOrder, nextSectionIdx>>
           /\ ret'.op \in {"GetReceipt", "GetUsersBySection"}
               => UNCHANGED <<Sections, SectionOrder, nextSectionIdx, Receipts>> ]_vars

\* GetUsersBySection has listed both requesters in one section while the
\* cursor is not at the first section and a seat is still available
C37_Witness ==
    /\ ret.op = "GetUsersBySection" /\ ret.code = "OK"
    /\ Len(ret.users) = 2
    /\ nextSectionIdx # 0
    /\ AnyAvailable

(* C38: under SpecAlloc, in every reachable state a successful UpdateSeat      *)
(* from seat cn to seat rn of the same section leaves that section's           *)
(* VacantSeats as it was, finds cn occupied and rn available and leaves cn     *)
(* available and rn occupied; and an UpdateSeat whose requested section and    *)
(* seat are the current section and seat returns an error and changes nothing  *)
(* of the allocator.                                                           *)
C38_SameSection ==
    \A s \in SectionArgs : \A cn \in SeatArgs : \A rn \in SeatArgs :
        LET u == DoUpdateSeat(SM, cn, s, rn, s) IN
        /\ u.err = NoError
           => /\ cn # rn
              /\ ~ Sections[s].Seats[cn].Available
              /\ Sections[s].Seats[rn].Available
              /\ u.sm.Sections[s].Seats[cn].Available
              /\ ~ u.sm.Sections[s].Seats[rn].Available
              /\ u.sm.Sections[s].VacantSeats = Sections[s].VacantSeats
        /\ cn = rn
           => /\ u.err # NoError
              /\ u.sm = SM

\* the only occupied seat was assigned as seat 1 of the first of two sections
\* (the cursor is at 1) and a successful move has taken it to seat 2 there
C38_Witness ==
    /\ ret.op = "UpdateSeat" /\ ret.err = NoError
    /\ NumSections = 2
    /\ nextSectionIdx = 1
    /\ TotalOccupied = 1
    /\ OccupiedSeats(Sections[SectionOrder[1]]) = {2}

(* C39: under SpecAlloc, when a successful UpdateSeat(s1, S1, s2, S2) is       *)
(* followed at once by UpdateSeat(s2, S2, s1, S1), the second call succeeds    *)
(* and the allocator (seat flags, VacantSeats, first-vacant hints, order and   *)
(* cursor) is what it was before the first; and in every reachable state this  *)
(* holds of every move that would succeed.                                     *)
C39_RoundTrip ==
    /\ (moved # << >> /\ moved[1].back)
       => /\ ret.op = "UpdateSeat" /\ ret.err = NoError
          /\ SM = moved[1].before
    /\ \A cs \in SectionArgs : \A cn \in NonZeroSeatArgs :
       \A rs \in SectionArgs : \A rn \in NonZeroSeatArgs :
         LET there == DoUpdateSeat(SM, cn, cs, rn, rs) IN
         there.err = NoError
         => LET back == DoUpdateSeat(there.sm, rn, rs, cn, cs) IN
            back.err = NoError /\ back.sm = SM

\* a seat has gone to seat 2 of another section and back while the cursor is
\* not at the first section and another seat is occupied
C39_Witness ==
    /\ moved # << >> /\ moved[1].back
    /\ moved[1].from.Section # moved[1].to.Section
    /\ moved[1].to.SeatNumber = 2
    /\ nextSectionIdx # 0
    /\ TotalOccupied >= 2

(* C40: under SpecAlloc, in every reachable state every section has           *)
(* 0 <= VacantSeats <= MaxSeats and 1 <= FirstVacant <= MaxSeats + 1, the      *)
(* cursor is at least 0 and, when a section is configured, below the number of *)
(* sections; and when no section is configured AssignSeat returns an error     *)
(* and leaves the allocator as it is.                                          *)
C40_Bounds ==
    /\ \A n \in DOMAIN Sections :
         /\ 0 <= Sections[n].VacantSeats
         /\ Sections[n].VacantSeats <= Sections[n].MaxSeats
         /\ 1 <= Sections[n].FirstVacant
         /\ Sections[n].FirstVacant <= Sections[n].MaxSeats + 1
    /\ 0 <= nextSectionIdx
    /\ NumSections > 0 => nextSectionIdx < NumSections
    /\ NumSections = 0
       => /\ DoAssignSeat(SM).err # NoError
          /\ DoAssignSeat(SM).sm = SM
          /\ ret.op = "AssignSeat"
             => /\ ret.err = "no available sections"
                /\ ret.outSection = "" /\ ret.outSeat = -1
                /\ SM = NewSeatManager(<< >>)

\* the bounds are met: after a successful move the cursor is on the last
\* section, one section is full with its hint past its last seat, and another
\* has every seat vacant
C40_Witness ==
    /\ ret.op = "UpdateSeat" /\ ret.err = NoError
    /\ NumSections = 3
    /\ nextSectionIdx = NumSections - 1
    /\ \E n \in DOMAIN Sections :
         /\ Sections[n].MaxSeats > 1
         /\ Sections[n].VacantSeats = 0
         /\ Sections[n].FirstVacant = Sections[n].MaxSeats + 1
    /\ \E n \in DOMAIN Sections :
         /\ Sections[n].VacantSeats = Sections[n].MaxSeats
         /\ Sections[n].FirstVacant = 1

====
